---- MODULE Spec2Model ----
(***************************************************************************)
(* Dialogue typing and scroll engine of the Magic Words scene:             *)
(* DialogueManager (typing cursor, resize, appendMessage),                 *)
(* DialogueLineManager (updateLineLayout, updateLineVisibility),           *)
(* parseLine, EmojiManager and ScrollManager (drag, auto-follow pause,     *)
(* resume timer, destroy).  Spec is the engine under its operations;       *)
(* PureSpec is parseLine, createEmojiObject and the layout of bubbles      *)
(* called on their own, on arguments drawn at the start.                   *)
(*                                                                         *)
(* Conventions.  Strings of the program are sequences of one-character     *)
(* strings.  Cursor indices are 0-based as in the program; sequences are   *)
(* 1-based, so part k of the program is parts[k + 1].  Lengths are whole   *)
(* pixels and times whole milliseconds.  The inputs are chosen so that     *)
(* every division of the program that the model performs is exact: the     *)
(* typing speed handed to the constructor divides 1000, so that            *)
(* charRevealTime and the accumulator of update() stay whole numbers (the  *)
(* scene's own 30 characters per second gives 33.33... ms, which the       *)
(* subtraction loop rounds), and the screens give whole paddings, scale    *)
(* factors and thirds of the mask height.                                  *)
(***************************************************************************)
EXTENDS Integers, Sequences, FiniteSets, TLC

-----------------------------------------------------------------------------
(* Bounds of the model *)

\* largest number of dialogue lines laid out (initial payload plus appends)
MaxLines == 2
\* the history variable totalMs stops counting at this many milliseconds
MaxTrackedMs == 200
\* largest number of browser timers pending at once
MaxTimers == 2

(* Program constants *)

LINE_SPACING == 8
DIALOGUE_PADDING == 15
SCROLL_PAUSE_DURATION == 2000
minScrollY == 0

(* Inputs *)

\* styles.typingSpeed handed to the constructor, in characters per second
typingSpeed == 20
\* tick lengths in ms handed to update()
Deltas == {25, 100}
\* the screen at construction, and the screens handed to resize()
InitScreen == [width |-> 800, height |-> 90]
Screens == { InitScreen, [width |-> 700, height |-> 400] }
\* globalY of the pointer events
PointerYs == {0, 40}
\* wall-clock steps in ms between events
ElapseSteps == {1000}

\* keys of the emojiTextures record handed to the constructor
EmojiTextures == { <<"s">>, <<"a">>, <<"s", "a", "t", "i", "s", "f", "i", "e", "d">> }
\* the characters the texts handed to parseLine are made of, and their
\* greatest length
ParseAlphabet == { "a", "{", "}", ":", "[", "]" }
MaxTextLen == 4

\* the dialogue lines the payload and appendMessage draw from
LineHi == [name |-> <<"A">>, text |-> <<"h", "i", ":", "s", ":">>]
LineEmo == [name |-> <<"B">>, text |-> <<"{", "a", "}", "[", "b", "]", "x">>]
\* the payloads handed to the constructor
InitDialogues == { <<>>, <<LineHi>>, <<LineEmo, LineHi>> }
\* the lines handed to appendMessage
AppendLines == {LineHi}

Min(a, b) == IF a < b THEN a ELSE b
Max(a, b) == IF a > b THEN a ELSE b

-----------------------------------------------------------------------------
(* dialogueParser.ts *)

TextPart(content) == [type |-> "text", content |-> content]
EmojiPart(content) == [type |-> "emoji", content |-> content]

\* position of the first c in text at or after position i, 0 when there is none
RECURSIVE FirstIndexOf(_, _, _)
FirstIndexOf(text, c, i) ==
  IF i > Len(text) THEN 0
  ELSE IF text[i] = c THEN i
  ELSE FirstIndexOf(text, c, i + 1)

\* a bug the pattern could have: a token with nothing between its delimiters
\* matches
MatchAtEmptyName(text, i) ==
  LET close == IF text[i] = "{" THEN "}"
               ELSE IF text[i] = ":" THEN ":"
               ELSE IF text[i] = "[" THEN "]"
               ELSE ""
      j == IF close = "" THEN 0 ELSE FirstIndexOf(text, close, i + 1)
  IN IF j > i THEN j ELSE 0

\* the combined pattern tried at position i: the position of the closing
\* delimiter of the token that starts at i, or 0 when no alternative matches
MatchAt(text, i) ==
  LET close == IF text[i] = "{" THEN "}"
               ELSE IF text[i] = ":" THEN ":"
               ELSE IF text[i] = "[" THEN "]"
               ELSE ""
      j == IF close = "" THEN 0 ELSE FirstIndexOf(text, close, i + 1)
  IN IF j > i + 1 THEN j ELSE 0

\* the while loop of parseLine: i is the scan position, lastIndex the number
\* of characters already consumed
RECURSIVE ParseFrom(_, _, _, _)
ParseFrom(text, i, lastIndex, parts) ==
  IF i > Len(text)
  THEN IF lastIndex < Len(text)
       THEN Append(parts, TextPart(SubSeq(text, lastIndex + 1, Len(text))))
       ELSE parts
  ELSE LET j == MatchAt(text, i)
       IN IF j = 0
          THEN ParseFrom(text, i + 1, lastIndex, parts)
          ELSE LET before == IF i - 1 > lastIndex
                             THEN Append(parts, TextPart(SubSeq(text, lastIndex + 1, i - 1)))
                             ELSE parts
               IN ParseFrom(text, j + 1, j,
                            Append(before, EmojiPart(SubSeq(text, i + 1, j - 1))))

parseLine(text) ==
  IF Len(text) = 0 THEN << TextPart(<<>>) >>
  ELSE LET parts == ParseFrom(text, 1, 0, <<>>)
       IN IF Len(parts) = 0 THEN << TextPart(<<>>) >> ELSE parts

-----------------------------------------------------------------------------
(* EmojiManager.ts *)

StripColons(name) == SelectSeq(name, LAMBDA c : c # ":")

Satisfied == <<"s", "a", "t", "i", "s", "f", "i", "e", "d">>
Affirmative == <<"a", "f", "f", "i", "r", "m", "a", "t", "i", "v", "e">>
Win == <<"w", "i", "n">>
Colons(name) == <<":">> \o name \o <<":">>

\* textures is the set of keys of this.emojiTextures
getSubstitutedEmojiName(emojiName, textures) ==
  LET baseName == StripColons(emojiName)
  IN IF /\ baseName \in { Affirmative, Win }
        /\ \/ Satisfied \in textures
           \/ Colons(Satisfied) \in textures
     THEN Satisfied
     ELSE baseName

\* no texture
NoTexture == <<>>

\* new Text(text, style), new Sprite(texture)
TextObject(text) == [kind |-> "Text", visible |-> TRUE, text |-> text, texture |-> NoTexture]
SpriteObject(texture) == [kind |-> "Sprite", visible |-> TRUE, text |-> <<>>, texture |-> texture]

\* the key under which createEmojiObject finds its texture: the name as it
\* is, then the substituted base name between colons, then the substituted
\* base name; NoTexture when none is loaded
lookupTexture(emojiName, textures) ==
  IF emojiName \in textures THEN emojiName
  ELSE IF Len(StripColons(emojiName)) = 0 THEN NoTexture
  ELSE LET sub == getSubstitutedEmojiName(StripColons(emojiName), textures)
       IN IF Colons(sub) \in textures THEN Colons(sub)
          ELSE IF sub \in textures THEN sub
          ELSE NoTexture

\* a Sprite of the texture found, a Text "[name]" when none is found
createEmojiObject(emojiName, textures) ==
  IF Len(emojiName) = 0 THEN TextObject(<<"[", "?", "]">>)
  ELSE IF lookupTexture(emojiName, textures) # NoTexture
       THEN SpriteObject(lookupTexture(emojiName, textures))
       ELSE TextObject(<<"[">> \o emojiName \o <<"]">>)

-----------------------------------------------------------------------------
(* DialogueLineManager *)

\* scaleFactor = min(1, max(0.8, width / 800)), in units of 1/10000
ScaleFactor(width) == Min(10000, Max(8000, (width * 10000) \div 800))

\* Lengths of the layout are in units of 1/10000 pixel, so that a natural
\* length times ScaleFactor is a whole number.
Unit == 10000

SAFETY_MARGIN == 2
EMOJI_SIZE == 20
\* getLineHeight(): max(textStyle.fontSize, charTextStyle.fontSize, emojiSize)
\* of the scene's styles
getLineHeight == 26
\* characterText.height at scale 1, as the renderer measures it
CharacterTextHeight == 19
\* the width of a character of a text part at scale 1 when the caller does
\* not say: Text.width is taken as the number of characters times this
DefaultCharWidth == 10
\* speakerColors.length
speakerColorsLength == 6

\* String.charCodeAt for the characters of the speaker names
charCodeAt(c) ==
  CASE c = "A" -> 65
    [] c = "B" -> 66
    [] c = "U" -> 85
    [] c = "k" -> 107
    [] c = "n" -> 110
    [] c = "o" -> 111
    [] c = "w" -> 119
    [] OTHER -> 63

\* the loop over speakerName: the sum of its character codes
RECURSIVE nameHashFrom(_, _)
nameHashFrom(speakerName, i) ==
  IF i > Len(speakerName) THEN 0
  ELSE charCodeAt(speakerName[i]) + nameHashFrom(speakerName, i + 1)

\* a bug the hash could have: the position of a character counts
RECURSIVE nameHashWeighted(_)
nameHashWeighted(speakerName) ==
  IF Len(speakerName) = 0 THEN 0
  ELSE Len(speakerName) * charCodeAt(speakerName[Len(speakerName)])
       + nameHashWeighted(SubSeq(speakerName, 1, Len(speakerName) - 1))

nameHash(speakerName) == nameHashFrom(speakerName, 1)

\* part.content.split(" ")
RECURSIVE split(_)
splitAt(i, content) ==
  IF i = 0 THEN << content >>
  ELSE << SubSeq(content, 1, i - 1) >> \o split(SubSeq(content, i + 1, Len(content)))
split(content) == splitAt(FirstIndexOf(content, " ", 1), content)

\* the measures updateLineLayout derives from availableWidth
MetricsAt(scaleFactor, bubbleWidth, charWidth) ==
  [ scaleFactor |-> scaleFactor,
    bubblePadding |-> 15 * scaleFactor,
    maxContentWidth |-> Max(bubbleWidth - (15 * scaleFactor) * 2, 200 * Unit),
    spaceWidth |-> 5 * scaleFactor,
    currentLineHeight |-> getLineHeight * scaleFactor,
    margin |-> SAFETY_MARGIN * Unit,
    charWidth |-> charWidth ]

Metrics(availableWidth, charWidth) ==
  MetricsAt(ScaleFactor(availableWidth), Min(availableWidth * 7500, 450 * Unit), charWidth)

\* Text.width of a text at the scale of the line
textWidth(text, m) == Len(text) * m.charWidth * m.scaleFactor

\* currentX = bubblePadding; currentY += currentLineHeight + 2 * scaleFactor
newLine(st, m) ==
  [st EXCEPT !.x = m.bubblePadding, !.y = @ + m.currentLineHeight + 2 * m.scaleFactor]

\* the test before placing: not first on the line, and too wide for the rest
wraps(st, width, m) ==
  st.x > m.bubblePadding /\ st.x + width + m.margin > m.maxContentWidth

\* a new Text added to contentContainer; it is not the part's own object
placeText(st, text, width, index) ==
  Append(st.nodes, [kind |-> "Text", text |-> text, x |-> st.x, y |-> st.y,
                    width |-> width, part |-> index, partObject |-> FALSE])

\* the least member of a set of numbers
Least(S) == CHOOSE c \in S : \A d \in S : c <= d

\* the prefix lengths of remainingWord that are too wide: the width of the
\* prefix with the margin is beyond maxContentWidth
tooWide(remainingWord, m) ==
  { c \in 1..Len(remainingWord) :
      textWidth(SubSeq(remainingWord, 1, c), m) + m.margin > m.maxContentWidth }

\* charsFit when the for loop ends: one less than the first prefix length
\* that is too wide, one character at least; the whole rest when none is
charsFitBelow(over, length) ==
  IF over = {} THEN length ELSE Max(1, Least(over) - 1)

\* the for loop over charsFit
charsFit(remainingWord, m) ==
  charsFitBelow(tooWide(remainingWord, m), Len(remainingWord))

\* the position after the wrap test for something of the given width
wrapped(st, width, m) == IF wraps(st, width, m) THEN newLine(st, m) ELSE st

\* lineWidth = Math.max(lineWidth, currentX)
trackX(st) == [st EXCEPT !.lineWidth = Max(@, st.x)]

\* after a segment: a new row when more of the word remains
afterSegment(rest, placed, m) ==
  trackX(IF Len(rest) > 0 THEN newLine(placed, m) ELSE placed)

\* the segment text added at the position at; no space follows it
segmentPlaced(segment, segmentWidth, at, index) ==
  [at EXCEPT !.nodes = placeText(at, segment, segmentWidth, index),
             !.x = @ + segmentWidth]

\* the while loop that breaks a long word
RECURSIVE breakWord(_, _, _, _)

\* one turn of the loop, for the segment found
breakSegment(segment, rest, st, index, m) ==
  breakWord(rest,
            afterSegment(rest,
                         segmentPlaced(segment, textWidth(segment, m),
                                       wrapped(st, textWidth(segment, m), m), index),
                         m),
            index, m)

\* one turn of the loop, for the number of characters that fit
breakAfter(fit, remainingWord, st, index, m) ==
  breakSegment(SubSeq(remainingWord, 1, fit),
               SubSeq(remainingWord, fit + 1, Len(remainingWord)), st, index, m)

breakWord(remainingWord, st, index, m) ==
  IF Len(remainingWord) = 0 THEN st
  ELSE breakAfter(charsFit(remainingWord, m), remainingWord, st, index, m)

\* wordWidth + SAFETY_MARGIN > maxContentWidth && word.length > 10
breaks(word, m) ==
  textWidth(word, m) + m.margin > m.maxContentWidth /\ Len(word) > 10

\* the word text added at the position at; a space follows it
wordPlaced(word, wordWidth, at, index, m) ==
  [at EXCEPT !.nodes = placeText(at, word, wordWidth, index),
             !.x = @ + wordWidth + m.spaceWidth,
             !.lineWidth = Max(@, at.x + wordWidth)]

\* one word of a text part
placeWord(word, st, index, m) ==
  IF breaks(word, m)
  THEN breakWord(word, st, index, m)
  ELSE wordPlaced(word, textWidth(word, m), wrapped(st, textWidth(word, m), m), index, m)

\* the for loop over the words of a text part
RECURSIVE placeWords(_, _, _, _, _)
placeWords(words, i, st, index, m) ==
  IF i > Len(words) THEN st
  ELSE placeWords(words, i + 1, placeWord(words[i], st, index, m), index, m)

\* the emoji Sprite added at the position at: the part's own object goes
\* into contentContainer
emojiPlaced(emojiWidth, at, index, m) ==
  [at EXCEPT !.nodes = Append(@, [kind |-> "Sprite", text |-> <<>>, x |-> at.x,
                                  y |-> at.y + m.currentLineHeight \div 2,
                                  width |-> emojiWidth, part |-> index,
                                  partObject |-> TRUE]),
             !.x = @ + emojiWidth + m.spaceWidth,
             !.lineWidth = Max(@, at.x + emojiWidth)]

\* an emoji Sprite placed inline
placeEmoji(st, index, m) ==
  emojiPlaced(EMOJI_SIZE * m.scaleFactor,
              wrapped(st, EMOJI_SIZE * m.scaleFactor, m), index, m)

\* one part; a part that is neither a text with a Text object nor an emoji
\* with a Sprite object is passed over
placePart(part, partObject, st, index, m) ==
  IF part.type = "text" /\ partObject.kind = "Text"
  THEN placeWords(split(part.content), 1, st, index, m)
  ELSE IF part.type = "emoji" /\ partObject.kind = "Sprite"
  THEN placeEmoji(st, index, m)
  ELSE st

\* the forEach over the parts
RECURSIVE placeParts(_, _, _, _, _)
placeParts(parts, partObjects, k, st, m) ==
  IF k > Len(parts) THEN st
  ELSE placeParts(parts, partObjects, k + 1,
                  placePart(parts[k], partObjects[k], st, k - 1, m), m)

\* a bug the layout could have: characterText.height is read before the new
\* scale is set, so it is the height at the scale the label had
labelScaleStale(scaleBefore, m) == scaleBefore

\* the scale of characterText when its height is read:
\* characterText.scale.set(scaleFactor) comes before the read
labelScaleAtMeasure(scaleBefore, m) == m.scaleFactor

\* currentX, currentY and lineWidth before the first part; labelScale is the
\* scale of characterText when characterText.height is read
layoutStart(labelScale, m) ==
  [ x |-> m.bubblePadding,
    y |-> CharacterTextHeight * labelScale + 5 * m.scaleFactor,
    lineWidth |-> 0,
    nodes |-> <<>> ]

\* what updateLineLayout leaves: the nodes of contentContainer besides the
\* speaker label, the side and colour of the bubble, and finalHeight
laidOutLine(end, hash, m) ==
  [ nodes |-> end.nodes,
    isRightAligned |-> hash % 2 = 0,
    colorIndex |-> hash % speakerColorsLength,
    maxContentWidth |-> m.maxContentWidth,
    \* bubbleDrawWidth and totalContentHeight, the size of the bubble graphic
    bubbleDrawWidth |-> Max(Min(end.lineWidth, m.maxContentWidth), m.bubblePadding)
                          + m.bubblePadding * 2,
    totalContentHeight |-> end.y + m.currentLineHeight + m.bubblePadding,
    \* the scale updateLineLayout leaves on characterText
    characterTextScale |-> m.scaleFactor,
    height |-> end.y + m.currentLineHeight + m.bubblePadding + 15 * m.scaleFactor ]

\* lineData.speakerName || "Unknown"
speakerNameOf(speakerName) ==
  IF Len(speakerName) = 0 THEN <<"U", "n", "k", "n", "o", "w", "n">> ELSE speakerName

\* updateLineLayout with the measures m on a line whose characterText has
\* the scale scaleBefore
relayout(scaleBefore, parts, partObjects, speakerName, m) ==
  laidOutLine(placeParts(parts, partObjects, 1,
                         layoutStart(labelScaleAtMeasure(scaleBefore, m), m), m),
              nameHash(speakerNameOf(speakerName)), m)

\* updateLineLayout with the measures m on a line as createLineObjects made
\* it: characterText at scale 1
layoutWith(parts, partObjects, speakerName, m) ==
  relayout(Unit, parts, partObjects, speakerName, m)

\* updateLineLayout with styles.emojiPosition "inline"
layoutLine(parts, partObjects, speakerName, availableWidth, charWidth) ==
  layoutWith(parts, partObjects, speakerName, Metrics(availableWidth, charWidth))

\* height of a one-row bubble at scale 1: speaker label, one text row, bubble
\* padding and the space below the bubble
UnscaledLineHeight == CharacterTextHeight + 5 + getLineHeight + 15 + 15

\* the lines of the payloads fit one row of the bubble at every width of
\* Screens, so the height updateLineLayout returns for them, in whole pixels,
\* depends on the scale factor alone
updateLineLayout(parts, availableWidth) ==
  (UnscaledLineHeight * ScaleFactor(availableWidth)) \div Unit

createLineObjects(line) ==
  LET name == IF Len(line.name) = 0 THEN <<"U", "n", "k", "n", "o", "w", "n">> ELSE line.name
      parts == parseLine(line.text)
  IN [ parts |-> parts,
       characterText |-> TextObject(name \o <<":">>),
       partObjects |-> [ k \in 1..Len(parts) |->
                           IF parts[k].type = "text"
                           THEN TextObject(parts[k].content)
                           ELSE createEmojiObject(parts[k].content, EmojiTextures) ] ]

\* the line's render data; y is container.y, set by the caller
createDialogueLine(line, availableWidth) ==
  LET objects == createLineObjects(line)
  IN [ parts |-> objects.parts,
       characterText |-> objects.characterText,
       partObjects |-> objects.partObjects,
       speakerName |-> line.name,
       y |-> 0,
       height |-> updateLineLayout(objects.parts, availableWidth) ]

\* what updateLineVisibility does to the object of part index (0-based)
VisiblePart(part, object, index, partIndex, charIndex) ==
  IF index < partIndex
  THEN [object EXCEPT !.visible = TRUE,
                      !.text = IF object.kind = "Text" THEN part.content ELSE @]
  ELSE IF index = partIndex /\ part.type = "text"
  THEN [object EXCEPT !.visible = TRUE,
                      !.text = IF object.kind = "Text"
                               THEN SubSeq(part.content, 1, Min(charIndex, Len(part.content)))
                               ELSE @]
  ELSE IF index = partIndex /\ part.type = "emoji"
  THEN [object EXCEPT !.visible = (charIndex > 0)]
  ELSE [object EXCEPT !.visible = FALSE]

updateLineVisibility(lineData, partIndex, charIndex) ==
  [lineData EXCEPT
     !.characterText.visible = TRUE,
     !.partObjects = [ k \in 1..Len(lineData.parts) |->
                         VisiblePart(lineData.parts[k], lineData.partObjects[k],
                                     k - 1, partIndex, charIndex) ] ]

-----------------------------------------------------------------------------
(* DialogueManager: the typing cursor *)

\* a bug advanceTyping could have: the end of the dialogue is noticed one
\* reveal step late
allLinesTypedLate(lineIndex, lines) == lineIndex > Len(lines)

\* this.currentLineIndex >= this.linesData.length
allLinesTyped(lineIndex, lines) == lineIndex >= Len(lines)

\* one reveal step on the typing state t =
\* [linesData, currentLineIndex, currentPartIndex, currentCharacterIndex,
\*  isTypingComplete]
\* this.currentCharacterIndex > currentPart.content.length (the mutant lets the
\* index run one further)
pastTheEndLate(characterIndex, content) == characterIndex > Len(content) + 1
pastTheEnd(characterIndex, content) == characterIndex > Len(content)

advanceTyping(t) ==
  IF t.isTypingComplete THEN t
  ELSE IF t.currentLineIndex >= Len(t.linesData)
  THEN [t EXCEPT !.isTypingComplete = TRUE]
  ELSE
    LET currentLine == t.linesData[t.currentLineIndex + 1]
        nextIndex == t.currentLineIndex + 1
    IN IF t.currentPartIndex >= Len(currentLine.parts)
       THEN \* no more parts in the current line
            IF allLinesTyped(nextIndex, t.linesData)
            THEN [t EXCEPT !.currentLineIndex = nextIndex,
                           !.currentPartIndex = 0,
                           !.currentCharacterIndex = 0,
                           !.isTypingComplete = TRUE]
            ELSE [t EXCEPT !.currentLineIndex = nextIndex,
                           !.currentPartIndex = 0,
                           !.currentCharacterIndex = 0,
                           !.linesData[nextIndex + 1] = updateLineVisibility(@, 0, 0)]
       ELSE
         LET currentPart == currentLine.parts[t.currentPartIndex + 1]
             textOverflow == pastTheEnd(t.currentCharacterIndex + 1, currentPart.content)
             partIndex == IF currentPart.type = "text"
                          THEN IF textOverflow THEN t.currentPartIndex + 1
                                               ELSE t.currentPartIndex
                          ELSE IF currentPart.type = "emoji" THEN t.currentPartIndex + 1
                          ELSE t.currentPartIndex
             charIndex == IF currentPart.type = "text"
                          THEN IF textOverflow THEN 0 ELSE t.currentCharacterIndex + 1
                          ELSE IF currentPart.type = "emoji" THEN 1
                          ELSE t.currentCharacterIndex
             shown == [t EXCEPT !.linesData[t.currentLineIndex + 1] =
                                   updateLineVisibility(@, partIndex, charIndex)]
         IN IF partIndex >= Len(currentLine.parts)
            THEN [shown EXCEPT !.currentLineIndex = nextIndex,
                               !.currentPartIndex = 0,
                               !.currentCharacterIndex = 0,
                               !.isTypingComplete = allLinesTyped(nextIndex, t.linesData)]
            ELSE [shown EXCEPT !.currentPartIndex = partIndex,
                               !.currentCharacterIndex = charIndex]

\* const charRevealTime = 1000 / this.styles.typingSpeed
charRevealTime == 1000 \div typingSpeed

\* the while loop of update(): n reveal steps
RECURSIVE advanceTimes(_, _)
advanceTimes(t, n) == IF n = 0 THEN t ELSE advanceTimes(advanceTyping(t), n - 1)

-----------------------------------------------------------------------------
(* ScrollManager: the pure parts *)

getMaxScroll(contentHeight, maskHeight) == Max(0, contentHeight - maskHeight)

\* a bug the clamp could have: the bottom bound is forgotten
clampScrollTopOnly(target, contentHeight, maskHeight) == Min(target, minScrollY)

\* Math.max(Math.min(target, minScrollY), -getMaxScroll())
clampScroll(target, contentHeight, maskHeight) ==
  Max(Min(target, minScrollY), -getMaxScroll(contentHeight, maskHeight))

\* a bug scrollToBottom could have: the target is left where it is
scrollToBottomNever(target, paused, contentHeight, maskHeight) == target

\* the targetScrollY scrollToBottom() leaves
scrollToBottom(target, paused, contentHeight, maskHeight) ==
  IF paused THEN target ELSE -getMaxScroll(contentHeight, maskHeight)

\* the targetScrollY updateContentHeight(height) leaves
updateContentHeight(target, paused, height, maskHeight) ==
  scrollToBottom(clampScroll(target, height, maskHeight), paused, height, maskHeight)

\* the targetScrollY scrollToPosition(position) leaves: the item a third of
\* the mask below its top
scrollToPosition(position, contentHeight, maskHeight) ==
  clampScroll((maskHeight \div 3) - position, contentHeight, maskHeight)

\* the value of scrollPauseTimeout when it is null
NoTimeout == 0

\* window.clearTimeout(id) on the set of pending timers; a no-op for an id
\* that is not pending
clearTimeout(timers, id) == { t \in timers : t.id # id }

\* window.setTimeout(callback, delay): a timer under an id no pending timer has
setTimeout(timers, delay) ==
  LET id == CHOOSE i \in 1..MaxTimers :
              /\ \A t \in timers : t.id # i
              /\ \A j \in 1..(i - 1) : \E t \in timers : t.id = j
  IN [ timers |-> timers \cup { [id |-> id, remaining |-> delay] }, id |-> id ]

\* the timers and scrollPauseTimeout pauseAutoScroll() leaves
pauseAutoScroll(timers, timeout) ==
  [ timers |-> IF timeout # NoTimeout THEN clearTimeout(timers, timeout) ELSE timers,
    scrollPauseTimeout |-> NoTimeout ]

\* a bug resumeAutoScrollAfterDelay could have: the previous timer is left
\* pending
resumeWithoutClearing(timers, timeout) ==
  LET set == setTimeout(timers, SCROLL_PAUSE_DURATION)
  IN [ timers |-> set.timers, scrollPauseTimeout |-> set.id ]

\* the timers and scrollPauseTimeout resumeAutoScrollAfterDelay() leaves
resumeAutoScrollAfterDelay(timers, timeout) ==
  LET cleared == IF timeout # NoTimeout THEN clearTimeout(timers, timeout) ELSE timers
      set == setTimeout(cleared, SCROLL_PAUSE_DURATION)
  IN [ timers |-> set.timers, scrollPauseTimeout |-> set.id ]

\* a bug ScrollManager.destroy could have: the timer is left pending
destroyLeavingTimer(timers, timeout) ==
  [ timers |-> timers, scrollPauseTimeout |-> NoTimeout, listening |-> FALSE ]

\* the timers, scrollPauseTimeout and listeners ScrollManager.destroy() leaves
destroy(timers, timeout) ==
  [ timers |-> IF timeout # NoTimeout THEN clearTimeout(timers, timeout) ELSE timers,
    scrollPauseTimeout |-> NoTimeout,
    listening |-> FALSE ]

\* a bug forceScrollToBottom could have: the pause flag is left as it is
forceScrollToBottomWhenUnpaused(target, paused, contentHeight, maskHeight) ==
  scrollToBottom(target, paused, contentHeight, maskHeight)

\* the targetScrollY forceScrollToBottom() leaves: scrollToBottom() with the
\* pause flag lowered for the call
forceScrollToBottom(target, paused, contentHeight, maskHeight) ==
  scrollToBottom(target, FALSE, contentHeight, maskHeight)

\* the pause flag forceScrollToBottom() leaves: the one it found (the mutant
\* leaves it lowered)
pausedLowered(wasPaused) == FALSE
pausedRestored(wasPaused) == wasPaused

-----------------------------------------------------------------------------
(* DialogueManager: layout of the whole dialogue *)

\* max(padding, min(width * 0.08, height * 0.08))
responsivePadding(width, height) ==
  Max(DIALOGUE_PADDING * 100, Min(width * 8, height * 8)) \div 100

\* height of the rectangle updateMask draws, which is dialogueMask.height
updateMask(width, height) == height - 2 * responsivePadding(width, height)

\* container.y of line k (1-based) when every line is laid out at
\* availableWidth and followed by spacing
RECURSIVE lineTop(_, _, _, _)
lineTop(dlg, k, availableWidth, spacing) ==
  IF k = 1 THEN 0
  ELSE lineTop(dlg, k - 1, availableWidth, spacing)
       + createDialogueLine(dlg[k - 1], availableWidth).height + spacing

\* linesData after initializeDialogue: every line created, placed and hidden
initializeDialogue(dlg, screenWidth) ==
  LET availableWidth == screenWidth - DIALOGUE_PADDING * 2
  IN [ k \in 1..Len(dlg) |->
         updateLineVisibility(
           [createDialogueLine(dlg[k], availableWidth)
              EXCEPT !.y = lineTop(dlg, k, availableWidth, LINE_SPACING)],
           0, 0) ]

\* linesData after the forEach of resize(): every line rebuilt at the new
\* width and shown according to the cursor
resizeLines(dlg, width, lineIndex, partIndex, charIndex) ==
  LET availableWidth == width - DIALOGUE_PADDING * 2
      responsiveLineSpacing == (LINE_SPACING * ScaleFactor(width)) \div 10000
  IN [ k \in 1..Len(dlg) |->
         LET newLineData ==
               [createDialogueLine(dlg[k], availableWidth)
                  EXCEPT !.y = lineTop(dlg, k, availableWidth, responsiveLineSpacing)]
         IN IF k - 1 < lineIndex
            THEN updateLineVisibility(newLineData, Len(newLineData.parts), 0)
            ELSE IF k - 1 = lineIndex
            THEN updateLineVisibility(newLineData, partIndex, charIndex)
            ELSE updateLineVisibility(newLineData, 0, 0) ]

-----------------------------------------------------------------------------
(* State *)

VARIABLES
  dialogue,               \* dialogueData.dialogue
  linesData,              \* DialogueManager.linesData
  currentLineIndex,
  currentPartIndex,
  currentCharacterIndex,
  lineRevealAccumulator,
  isTypingComplete,
  screenWidth,            \* app.screen.width
  maskHeight,             \* dialogueMask.height
  targetScrollY,
  dialogueContentHeight,
  isPointerDown,
  lastPointerY,
  isScrollingPaused,
  scrollPauseTimeout,     \* NoTimeout or the id of a timer
  pendingTimers,          \* the browser's timers whose callback is yet to run:
                          \* records [id, remaining ms]
  listening,              \* the pointer listeners are on scrollContainer
  destroyed,              \* destroy() was called
  lastOperation,          \* history: "appendMessage", "onPointerMove" or "other"
  totalMs,                \* history: ms handed to update() since construction
                          \* while nothing but update() was called, up to
                          \* MaxTrackedMs; MaxTrackedMs once the count stops
  quietSinceRelease,      \* history: a pointer release, and since then no
                          \* pointer event, resize or append
  call,                   \* a call of a function on its own: its arguments
                          \* and, once it returned, what it returned
  animator,               \* a TypingAnimator: its fields
  smoothing,              \* ScrollManager's smoothed offset: scrollContainer.y
                          \* and the target it chases
  pool,                   \* an ObjectPool: its fields
  animationManager,       \* the AnimationManager: its fields and the display
                          \* objects it animates
  sceneManager,           \* the SceneManager: its fields and the stage
  cardManager,            \* a CardManager: its fields, its AnimationManager's
                          \* and the cards' zIndex
  particleManager,        \* a ParticleManager: its fields and its pool's
  magicWords              \* a MagicWordsScene: its payload and message index;
                          \* its DialogueManager is the engine

typingVars == << linesData, currentLineIndex, currentPartIndex,
                 currentCharacterIndex, lineRevealAccumulator, isTypingComplete >>
timerVars == << scrollPauseTimeout, pendingTimers >>
lifeVars == << listening, destroyed >>
pointerVars == << isPointerDown, lastPointerY >>
pureVars == << call >>
engineVars == << dialogue, typingVars, screenWidth, maskHeight, targetScrollY,
                 dialogueContentHeight, pointerVars, isScrollingPaused, timerVars,
                 lifeVars,
                 lastOperation, totalMs, quietSinceRelease >>
sceneVars == << cardManager, particleManager, magicWords >>
componentVars ==
  << animator, smoothing, pool, animationManager, sceneManager, sceneVars >>
asideVars == << pureVars, componentVars >>
vars == << engineVars, pureVars, componentVars >>

\* no function is called on its own
NoCall == [op |-> "none", returned |-> FALSE]
\* a component that was not constructed
NotBuilt == [built |-> FALSE]
ScenesNotBuilt ==
  /\ cardManager = NotBuilt
  /\ particleManager = NotBuilt
  /\ magicWords = NotBuilt
ComponentsNotBuilt ==
  /\ ScenesNotBuilt
  /\ animator = NotBuilt
  /\ smoothing = NotBuilt
  /\ pool = NotBuilt
  /\ animationManager = NotBuilt
  /\ sceneManager = NotBuilt

\* a timer is pending
timerPending == pendingTimers # {}
\* ms until the next pending timer is due, 0 when none is pending
timerRemaining ==
  IF pendingTimers = {} THEN 0
  ELSE CHOOSE r \in { t.remaining : t \in pendingTimers } :
         \A t \in pendingTimers : r <= t.remaining

TypingState ==
  [ linesData |-> linesData,
    currentLineIndex |-> currentLineIndex,
    currentPartIndex |-> currentPartIndex,
    currentCharacterIndex |-> currentCharacterIndex,
    isTypingComplete |-> isTypingComplete ]

\* the constructor called with a payload: ScrollManager's field initialisers,
\* then initializeDialogue
EngineBuiltFrom(payload) ==
  /\ dialogue = payload
  /\ screenWidth = InitScreen.width
  /\ maskHeight = updateMask(InitScreen.width, InitScreen.height)
  /\ linesData = initializeDialogue(dialogue, screenWidth)
  /\ currentLineIndex = 0
  /\ currentPartIndex = 0
  /\ currentCharacterIndex = 0
  /\ lineRevealAccumulator = 0
  /\ isTypingComplete = FALSE
  /\ dialogueContentHeight =
       lineTop(dialogue, Len(dialogue) + 1, screenWidth - DIALOGUE_PADDING * 2, LINE_SPACING)
  /\ targetScrollY = updateContentHeight(0, FALSE, dialogueContentHeight, maskHeight)
  /\ isPointerDown = FALSE
  /\ lastPointerY = 0
  /\ isScrollingPaused = FALSE
  /\ scrollPauseTimeout = NoTimeout
  /\ pendingTimers = {}
  /\ listening = TRUE
  /\ destroyed = FALSE
  /\ lastOperation = "other"
  /\ totalMs = 0
  /\ quietSinceRelease = FALSE

EngineInit == \E payload \in InitDialogues : EngineBuiltFrom(payload)

Init == EngineInit /\ call = NoCall /\ ComponentsNotBuilt

-----------------------------------------------------------------------------
(* Operations *)

\* DialogueManager.update(deltaMS)
Update(deltaMS) ==
  /\ ~destroyed
  /\ UNCHANGED asideVars
  /\ lastOperation' = "other"
  /\ totalMs' = Min(totalMs + deltaMS, MaxTrackedMs)
  /\ UNCHANGED << dialogue, screenWidth, maskHeight, dialogueContentHeight,
                  pointerVars, isScrollingPaused, timerVars, lifeVars,
                  quietSinceRelease >>
  /\ IF isTypingComplete
     THEN UNCHANGED << typingVars, targetScrollY >>
     ELSE LET accumulated == lineRevealAccumulator + deltaMS
              t == advanceTimes(TypingState, accumulated \div charRevealTime)
          IN /\ lineRevealAccumulator' = accumulated % charRevealTime
             /\ linesData' = t.linesData
             /\ currentLineIndex' = t.currentLineIndex
             /\ currentPartIndex' = t.currentPartIndex
             /\ currentCharacterIndex' = t.currentCharacterIndex
             /\ isTypingComplete' = t.isTypingComplete
             /\ targetScrollY' =
                  IF t.isTypingComplete THEN targetScrollY
                  ELSE scrollToBottom(targetScrollY, isScrollingPaused,
                                      dialogueContentHeight, maskHeight)

\* DialogueManager.resize(width, height)
Resize(width, height) ==
  LET newMask == updateMask(width, height)
      availableWidth == width - DIALOGUE_PADDING * 2
      responsiveLineSpacing == (LINE_SPACING * ScaleFactor(width)) \div 10000
      newLines == resizeLines(dialogue, width, currentLineIndex,
                              currentPartIndex, currentCharacterIndex)
      currentY == lineTop(dialogue, Len(dialogue) + 1, availableWidth, responsiveLineSpacing)
      afterHeight == updateContentHeight(targetScrollY, isScrollingPaused, currentY, newMask)
      scrolls == ~isTypingComplete /\ currentLineIndex < Len(newLines)
      paused == pauseAutoScroll(pendingTimers, scrollPauseTimeout)
      resumed == resumeAutoScrollAfterDelay(paused.timers, paused.scrollPauseTimeout)
  IN /\ ~destroyed
     /\ Cardinality(pendingTimers) < MaxTimers
     /\ UNCHANGED asideVars
     /\ lastOperation' = "other"
     /\ screenWidth' = width
     /\ maskHeight' = newMask
     /\ linesData' = newLines
     /\ dialogueContentHeight' = currentY
     /\ IF scrolls
        THEN \* scrollToPosition: pauseAutoScroll, then resumeAutoScrollAfterDelay
             /\ targetScrollY' = scrollToPosition(newLines[currentLineIndex + 1].y,
                                                  currentY, newMask)
             /\ isScrollingPaused' = TRUE
             /\ scrollPauseTimeout' = resumed.scrollPauseTimeout
             /\ pendingTimers' = resumed.timers
        ELSE /\ targetScrollY' = afterHeight
             /\ UNCHANGED << isScrollingPaused, timerVars >>
     /\ quietSinceRelease' = FALSE
     /\ totalMs' = MaxTrackedMs
     /\ UNCHANGED << dialogue, currentLineIndex, currentPartIndex,
                     currentCharacterIndex, lineRevealAccumulator,
                     isTypingComplete, pointerVars, lifeVars >>

\* this.dialogueData.dialogue.push(line) (the mutant forgets the line)
payloadWithout(payload, line) == payload
payloadWith(payload, line) == Append(payload, line)

\* DialogueManager.appendMessage(line)
AppendMessage(line) ==
  /\ ~destroyed
  /\ Len(linesData) < MaxLines
  /\ LET currentY == IF Len(linesData) > 0
                     THEN linesData[Len(linesData)].y + linesData[Len(linesData)].height
                          + LINE_SPACING
                     ELSE 0
         newLineData == updateLineVisibility(
                          [createDialogueLine(line, screenWidth - DIALOGUE_PADDING * 2)
                             EXCEPT !.y = currentY],
                          0, 0)
         totalHeight == currentY + newLineData.height
         afterHeight == updateContentHeight(targetScrollY, isScrollingPaused,
                                            totalHeight, maskHeight)
     IN /\ linesData' = Append(linesData, newLineData)
        /\ dialogue' = payloadWith(dialogue, line)
        /\ dialogueContentHeight' = totalHeight
        /\ isTypingComplete' = FALSE
        /\ lineRevealAccumulator' = IF isTypingComplete THEN 0 ELSE lineRevealAccumulator
        /\ currentLineIndex' = Len(linesData)
        /\ currentPartIndex' = 0
        /\ currentCharacterIndex' = 0
        /\ targetScrollY' = forceScrollToBottom(afterHeight, isScrollingPaused,
                                                totalHeight, maskHeight)
  /\ UNCHANGED asideVars
  /\ lastOperation' = "appendMessage"
  /\ totalMs' = MaxTrackedMs
  /\ quietSinceRelease' = FALSE
  /\ isScrollingPaused' = pausedRestored(isScrollingPaused)
  /\ UNCHANGED << screenWidth, maskHeight, pointerVars, timerVars, lifeVars >>

\* a pointerdown event on scrollContainer: ScrollManager.onPointerDown(event)
\* while the listener is on; pauseAutoScroll clears a pending timer
PointerDown(globalY) ==
  /\ listening
  /\ isPointerDown' = TRUE
  /\ lastPointerY' = globalY
  /\ isScrollingPaused' = TRUE
  /\ scrollPauseTimeout' = pauseAutoScroll(pendingTimers, scrollPauseTimeout).scrollPauseTimeout
  /\ pendingTimers' = pauseAutoScroll(pendingTimers, scrollPauseTimeout).timers
  /\ UNCHANGED asideVars
  /\ lastOperation' = "other"
  /\ quietSinceRelease' = FALSE
  /\ totalMs' = MaxTrackedMs
  /\ UNCHANGED << dialogue, typingVars, screenWidth, maskHeight, targetScrollY,
                  dialogueContentHeight, lifeVars >>

\* ScrollManager.onPointerMove(event); it returns at once unless dragging
PointerMove(globalY) ==
  /\ listening
  /\ isPointerDown
  /\ targetScrollY' = clampScroll(targetScrollY + (globalY - lastPointerY),
                                  dialogueContentHeight, maskHeight)
  /\ lastPointerY' = globalY
  /\ UNCHANGED asideVars
  /\ lastOperation' = "onPointerMove"
  /\ UNCHANGED << dialogue, typingVars, screenWidth, maskHeight,
                  dialogueContentHeight, isPointerDown, isScrollingPaused,
                  timerVars, lifeVars, totalMs, quietSinceRelease >>

\* ScrollManager.onPointerUp(); it returns at once unless dragging;
\* resumeAutoScrollAfterDelay replaces the timer
PointerUp ==
  /\ listening
  /\ isPointerDown
  /\ Cardinality(pendingTimers) < MaxTimers
  /\ isPointerDown' = FALSE
  /\ scrollPauseTimeout' =
       resumeAutoScrollAfterDelay(pendingTimers, scrollPauseTimeout).scrollPauseTimeout
  /\ pendingTimers' = resumeAutoScrollAfterDelay(pendingTimers, scrollPauseTimeout).timers
  /\ quietSinceRelease' = TRUE
  /\ UNCHANGED asideVars
  /\ lastOperation' = "other"
  /\ UNCHANGED << dialogue, typingVars, screenWidth, maskHeight, targetScrollY,
                  dialogueContentHeight, lastPointerY, isScrollingPaused,
                  lifeVars, totalMs >>

\* wall-clock time passes; a due timer runs before more time passes
Elapse(ms) ==
  /\ pendingTimers # {}
  /\ \A t \in pendingTimers : ms <= t.remaining
  /\ pendingTimers' = { [t EXCEPT !.remaining = @ - ms] : t \in pendingTimers }
  /\ UNCHANGED asideVars
  /\ lastOperation' = "other"
  /\ UNCHANGED << dialogue, typingVars, screenWidth, maskHeight, targetScrollY,
                  dialogueContentHeight, pointerVars, isScrollingPaused,
                  scrollPauseTimeout, lifeVars, totalMs, quietSinceRelease >>

\* a due timer runs the callback resumeAutoScrollAfterDelay handed to
\* setTimeout
TimerFire ==
  /\ \E t \in pendingTimers :
       /\ t.remaining = 0
       /\ pendingTimers' = pendingTimers \ {t}
  /\ isScrollingPaused' = FALSE
  /\ UNCHANGED asideVars
  /\ lastOperation' = "other"
  /\ UNCHANGED << dialogue, typingVars, screenWidth, maskHeight, targetScrollY,
                  dialogueContentHeight, pointerVars, scrollPauseTimeout,
                  lifeVars, totalMs, quietSinceRelease >>

\* DialogueManager.destroy(): ScrollManager.destroy(), then the containers
\* are destroyed
Destroy ==
  /\ ~destroyed
  /\ destroyed' = TRUE
  /\ listening' = destroy(pendingTimers, scrollPauseTimeout).listening
  /\ scrollPauseTimeout' = destroy(pendingTimers, scrollPauseTimeout).scrollPauseTimeout
  /\ pendingTimers' = destroy(pendingTimers, scrollPauseTimeout).timers
  /\ UNCHANGED asideVars
  /\ lastOperation' = "other"
  /\ totalMs' = MaxTrackedMs
  /\ quietSinceRelease' = FALSE
  /\ UNCHANGED << dialogue, typingVars, screenWidth, maskHeight, targetScrollY,
                  dialogueContentHeight, pointerVars, isScrollingPaused >>

Next ==
  \/ \E deltaMS \in Deltas : Update(deltaMS)
  \/ \E screen \in Screens : Resize(screen.width, screen.height)
  \/ \E line \in AppendLines : AppendMessage(line)
  \/ \E globalY \in PointerYs : PointerDown(globalY)
  \/ \E globalY \in PointerYs : PointerMove(globalY)
  \/ PointerUp
  \/ \E ms \in ElapseSteps : Elapse(ms)
  \/ TimerFire
  \/ Destroy

Spec == Init /\ [][Next]_vars

-----------------------------------------------------------------------------
(* The functions called on their own *)

\* the texts handed to parseLine
ParseTexts == UNION { [1..k -> ParseAlphabet] : k \in 0..MaxTextLen }

\* the token names handed to createEmojiObject, and the records of textures
\* the EmojiManager is constructed with
EmojiNames == { Win, Colons(Win), Affirmative, Satisfied, <<"b">> }
TextureSets == SUBSET { Win, Colons(Win), Satisfied, Colons(Satisfied) }

\* the calls made: the function and its arguments
ParseRequests ==
  { [op |-> "parseLine", returned |-> FALSE, text |-> text] : text \in ParseTexts }
EmojiRequests ==
  { [op |-> "createEmojiObject", returned |-> FALSE,
     emojiName |-> emojiName, textures |-> textures] :
      emojiName \in EmojiNames, textures \in TextureSets }
\* the lines laid out on their own: a token without an image, a word longer
\* than a row, a short word of wide characters, words around a long one
LineLong == [name |-> <<"A", "B">>, text |-> [i \in 1..40 |-> "W"]]
LineWide == [name |-> <<"B">>, text |-> [i \in 1..10 |-> "W"]]
LineWords == [name |-> <<>>,
              text |-> <<"a", "b", " ">> \o [i \in 1..12 |-> "W"] \o <<" ", "c", "d">>]
LayoutLines == { LineHi, LineEmo, LineLong, LineWide, LineWords }
\* the lines of one DialogueLineManager, in the order they are laid out
LayoutDialogues ==
  { << line >> : line \in LayoutLines }
    \cup { << before, line >> : before \in LayoutLines, line \in LayoutLines }
    \cup { << first, between, line >> :
             first \in LayoutLines, between \in LayoutLines, line \in LayoutLines }
\* availableWidth handed to updateLineLayout
LayoutWidths == { 270, 770 }
\* the width of a character of styles.textStyle at scale 1
CharWidths == { 10, 24, 26 }
\* the typing cursor on the last line: << partIndex, charIndex >>
LayoutCursors == { <<0, 0>>, <<0, 1>>, <<2, 0>>, <<3, 0>> }

LayoutRequests ==
  { [op |-> "updateLineLayout", returned |-> FALSE, lines |-> lines,
     availableWidth |-> availableWidth, charWidth |-> charWidth,
     partIndex |-> cursor[1], charIndex |-> cursor[2]] :
      lines \in LayoutDialogues, availableWidth \in LayoutWidths,
      charWidth \in CharWidths, cursor \in LayoutCursors }

\* a null or undefined line
NullLine == [null |-> TRUE]
\* the lines handed to createDialogueLine on its own: whole, without a
\* speaker, without text, with both empty, with neither, and no line at all
DraftLines ==
  { LineHi,
    [text |-> <<"h", "i">>],
    [name |-> <<"A">>],
    [name |-> <<>>, text |-> <<>>],
    [id |-> 1],
    NullLine }
CreateLineRequests ==
  { [op |-> "createDialogueLine", returned |-> FALSE, line |-> line,
     availableWidth |-> availableWidth] :
      line \in DraftLines, availableWidth \in LayoutWidths }

Requests ==
  ParseRequests \cup EmojiRequests \cup LayoutRequests \cup CreateLineRequests

\* one line of a DialogueLineManager: its objects as createDialogueLine makes
\* them, the bubble as updateLineLayout lays it out, and the visibility
\* updateLineVisibility gives the objects for the cursor
Bubble(line, availableWidth, charWidth, partIndex, charIndex) ==
  LET objects == createLineObjects(line)
      lineData == [ parts |-> objects.parts,
                    characterText |-> objects.characterText,
                    partObjects |-> objects.partObjects,
                    speakerName |-> line.name ]
  IN [ lineData |-> updateLineVisibility(lineData, partIndex, charIndex),
       partIndex |-> partIndex,
       charIndex |-> charIndex,
       layout |-> layoutLine(objects.parts, objects.partObjects, line.name,
                             availableWidth, charWidth),
       \* updateLineLayout called once more on the line the first call left
       again |-> relayout(layoutLine(objects.parts, objects.partObjects, line.name,
                                     availableWidth, charWidth).characterTextScale,
                          objects.parts, objects.partObjects, line.name,
                          Metrics(availableWidth, charWidth)) ]

\* parseLine(text) returns
ParseCall ==
  /\ call \in ParseRequests
  /\ call' = [op |-> "parseLine", returned |-> TRUE, text |-> call.text,
              parts |-> parseLine(call.text)]
  /\ UNCHANGED << engineVars, componentVars >>

\* new EmojiManager(textures, styles).createEmojiObject(emojiName) returns
EmojiCall ==
  /\ call \in EmojiRequests
  /\ call' = [op |-> "createEmojiObject", returned |-> TRUE,
              emojiName |-> call.emojiName, textures |-> call.textures,
              object |-> createEmojiObject(call.emojiName, call.textures)]
  /\ UNCHANGED << engineVars, componentVars >>

\* createDialogueLine, updateLineLayout and updateLineVisibility for every
\* line in order: the lines before the last are typed in full, the last is at
\* the cursor
LayoutCall ==
  /\ call \in LayoutRequests
  /\ call' =
       [ op |-> "updateLineLayout", returned |-> TRUE, lines |-> call.lines,
         availableWidth |-> call.availableWidth, charWidth |-> call.charWidth,
         partIndex |-> call.partIndex, charIndex |-> call.charIndex,
         bubbles |->
           [ k \in 1..Len(call.lines) |->
               IF k < Len(call.lines)
               THEN Bubble(call.lines[k], call.availableWidth, call.charWidth,
                           Len(parseLine(call.lines[k].text)), 0)
               ELSE Bubble(call.lines[k], call.availableWidth, call.charWidth,
                           call.partIndex, call.charIndex) ] ]
  /\ UNCHANGED << engineVars, componentVars >>

\* line?.name and line?.text: the empty string when there is no line or the
\* line has no such field (undefined and "" are both replaced by the default)
nameIfAny(line) ==
  IF line # NullLine /\ "name" \in DOMAIN line THEN line.name ELSE <<>>
textIfAny(line) ==
  IF line # NullLine /\ "text" \in DOMAIN line THEN line.text ELSE <<>>

\* line.name raises a TypeError when line is null or undefined
readsNameOf(line) == line # NullLine

\* createDialogueLine(line, availableWidth) returns or raises
CreateLineCall ==
  /\ call \in CreateLineRequests
  /\ call' =
       IF readsNameOf(call.line)
       THEN [ op |-> "createDialogueLine", returned |-> TRUE, raised |-> FALSE,
              line |-> call.line, availableWidth |-> call.availableWidth,
              lineData |->
                createDialogueLine([ name |-> nameIfAny(call.line),
                                     text |-> textIfAny(call.line) ],
                                   call.availableWidth) ]
       ELSE [ op |-> "createDialogueLine", returned |-> TRUE, raised |-> TRUE,
              line |-> call.line, availableWidth |-> call.availableWidth ]
  /\ UNCHANGED << engineVars, componentVars >>

PureInit ==
  EngineInit /\ dialogue = <<>> /\ call \in Requests /\ ComponentsNotBuilt

PureNext ==
  \/ ParseCall
  \/ EmojiCall
  \/ LayoutCall
  \/ CreateLineCall

PureSpec == PureInit /\ [][PureNext]_vars

-----
(* What is on show *)

\* what a part object shows: its text, a mark for a sprite, nothing when hidden
Shown(object) ==
  IF ~object.visible THEN <<>>
  ELSE IF object.kind = "Text" THEN object.text
  ELSE <<"*">>

\* what a part shows when it is revealed in full
ShownInFull(part, object) ==
  IF object.kind = "Sprite" THEN <<"*">>
  ELSE IF part.type = "text" THEN part.content
  ELSE object.text

\* the reveal state: for every line and part, whether it is visible and what
\* it shows
RevealState ==
  [ k \in 1..Len(linesData) |->
      [ p \in 1..Len(linesData[k].parts) |->
          [ visible |-> linesData[k].partObjects[p].visible,
            shown |-> Shown(linesData[k].partObjects[p]) ] ] ]

LineFullyVisible(lineData) ==
  \A p \in 1..Len(lineData.parts) :
    /\ lineData.partObjects[p].visible
    /\ lineData.parts[p].type = "text" =>
         lineData.partObjects[p].text = lineData.parts[p].content

AllFullyVisible == \A k \in 1..Len(linesData) : LineFullyVisible(linesData[k])

RECURSIVE SumTo(_, _)
SumTo(f, n) == IF n = 0 THEN 0 ELSE f[n] + SumTo(f, n - 1)

\* revealed units of a line: the characters its text parts show and one for
\* every visible emoji
RevealedInLine(lineData) ==
  SumTo([ p \in 1..Len(lineData.parts) |->
            IF ~lineData.partObjects[p].visible THEN 0
            ELSE IF lineData.parts[p].type = "text"
                 THEN Len(lineData.partObjects[p].text)
                 ELSE 1 ],
        Len(lineData.parts))

RevealedCharacters ==
  SumTo([ k \in 1..Len(linesData) |-> RevealedInLine(linesData[k]) ], Len(linesData))

UpdateStep == \E deltaMS \in Deltas : Update(deltaMS)
ResizeStep == \E screen \in Screens : Resize(screen.width, screen.height)

BottomOffset == -(Max(0, dialogueContentHeight - maskHeight))

\* the fields of ScrollManager
scrollState == << targetScrollY, dialogueContentHeight, isPointerDown, lastPointerY,
                 isScrollingPaused, scrollPauseTimeout >>

-----------------------------------------------------------------------------
(* Claims *)

\* C1: while typing is not complete, resize leaves the reveal state as it
\* was: every segment of every line is as visible, and shows as many
\* characters, after the resize as before it.
C1_ResizePreservesReveal ==
  [][(~isTypingComplete /\ ResizeStep) => RevealState' = RevealState]_vars

\* C2: after appendMessage, in any state, the complete flag is false, the
\* typing cursor is (index of the new last line, 0, 0) and targetScrollY is
\* the bottom offset of the enlarged content.
C2_AppendResetsCursorAndScrolls ==
  lastOperation = "appendMessage" =>
    /\ ~isTypingComplete
    /\ currentLineIndex = Len(linesData) - 1
    /\ currentPartIndex = 0
    /\ currentCharacterIndex = 0
    /\ targetScrollY = BottomOffset

\* an append made while auto-follow was paused by a drag still in progress,
\* with content taller than the viewport
C2_Witness ==
  /\ lastOperation = "appendMessage"
  /\ isScrollingPaused
  /\ isPointerDown
  /\ targetScrollY < 0
  /\ Len(linesData) >= 2

\* C3: an append made while an earlier line is being typed loses nothing:
\* when typing is complete, every segment of every line is fully visible.
C3_CompleteShowsEverything == isTypingComplete => AllFullyVisible

\* C4: segment visibility is what the cursor dictates: lines before
\* currentLineIndex in full, the current line in full before
\* currentPartIndex and currentCharacterIndex characters of the current
\* part, nothing of later parts and later lines.
C4_CursorDictatesVisibility ==
  \A k \in 1..Len(linesData) :
    LET lineData == linesData[k]
    IN IF k - 1 < currentLineIndex THEN LineFullyVisible(lineData)
       ELSE \A p \in 1..Len(lineData.parts) :
              LET part == lineData.parts[p]
                  object == lineData.partObjects[p]
              IN IF k - 1 = currentLineIndex /\ p - 1 < currentPartIndex
                 THEN Shown(object) = ShownInFull(part, object)
                 ELSE IF k - 1 = currentLineIndex /\ p - 1 = currentPartIndex
                 THEN IF part.type = "text"
                      THEN Shown(object) = SubSeq(part.content, 1, currentCharacterIndex)
                      ELSE object.visible = (currentCharacterIndex > 0)
                 ELSE Shown(object) = <<>>

\* C5: 0 <= currentLineIndex <= number of lines, and currentLineIndex is the
\* number of lines exactly when typing is complete.
C5_Original ==
  /\ 0 <= currentLineIndex
  /\ currentLineIndex <= Len(linesData)
  /\ (currentLineIndex = Len(linesData)) <=> isTypingComplete

\* C5 as amended: 0 <= currentLineIndex <= number of lines; typing is
\* complete only with currentLineIndex at the number of lines; and
\* currentLineIndex is at the number of lines with typing not complete only
\* when no line is laid out.
C5_Amended ==
  /\ 0 <= currentLineIndex
  /\ currentLineIndex <= Len(linesData)
  /\ isTypingComplete => currentLineIndex = Len(linesData)
  /\ (currentLineIndex = Len(linesData) /\ ~isTypingComplete) => Len(linesData) = 0

\* typing ran to the end of a one-line dialogue that a line was appended to
C5_Witness ==
  /\ isTypingComplete
  /\ currentLineIndex = Len(linesData)
  /\ dialogue = <<LineHi, LineHi>>

\* C6: targetScrollY lies in [-(max(0, contentHeight - viewportHeight)), 0]
\* after every operation.
C6_TargetWithinBounds ==
  /\ targetScrollY <= 0
  /\ targetScrollY >= -(Max(0, dialogueContentHeight - maskHeight))

\* a drag move of 40 upwards that the bottom limit stopped, the content being
\* taller than the viewport by less than 40
C6_Witness ==
  /\ lastOperation = "onPointerMove"
  /\ lastPointerY = 0
  /\ dialogueContentHeight - maskHeight \in 1..39
  /\ targetScrollY = -(dialogueContentHeight - maskHeight)

\* C7: after update ticks totalling totalMs ms since construction, and while
\* typing is not complete, the number of revealed characters is
\* floor(typingSpeed * totalMs / 1000).
C7_RevealedIsFloorOfRate ==
  (totalMs < MaxTrackedMs /\ ~isTypingComplete) =>
    RevealedCharacters = (typingSpeed * totalMs) \div 1000

\* C8: a speaker label is visible only once the cursor has entered its line,
\* and directly after construction no label and no segment is visible.
C8_LabelHiddenUntilEntered ==
  /\ \A k \in 1..Len(linesData) :
       linesData[k].characterText.visible => currentLineIndex >= k - 1
  /\ totalMs = 0 =>
       \A k \in 1..Len(linesData) :
         /\ ~linesData[k].characterText.visible
         /\ \A p \in 1..Len(linesData[k].parts) :
              Shown(linesData[k].partObjects[p]) = <<>>

\* C9: while the pointer is down, no update tick moves targetScrollY.
C9_NoAutoFollowWhileDragging ==
  [][(isPointerDown /\ UpdateStep) => targetScrollY' = targetScrollY]_vars

\* C10: after a release with no pointer event, resize or append since, an
\* update tick before the 2000 ms are over leaves targetScrollY as it is, and
\* once the timer has run auto-follow is active.
C10_PauseLastsForTheWindow ==
  [][ /\ (quietSinceRelease /\ timerPending /\ timerRemaining > 0 /\ UpdateStep)
         => targetScrollY' = targetScrollY
      /\ (quietSinceRelease' /\ ~timerPending') => ~isScrollingPaused' ]_vars

\* C11: at most one resume timer is pending, the one scrollPauseTimeout names,
\* and auto-follow is resumed only by the timer of the most recent
\* resume-scheduling call: when the pause flag is lowered no timer is left
\* pending.
C11_OneResumeTimer ==
  /\ [](/\ Cardinality(pendingTimers) <= 1
        /\ \A t \in pendingTimers : t.id = scrollPauseTimeout)
  /\ [][(isScrollingPaused /\ ~isScrollingPaused') => pendingTimers' = {}]_vars

\* half of the pause window after a release has passed, the timer of the
\* release pending
C11_Witness ==
  /\ quietSinceRelease
  /\ isScrollingPaused
  /\ pendingTimers = { [id |-> 1, remaining |-> SCROLL_PAUSE_DURATION - 1000] }

\* C12: after destroy() no resume timer is pending, the pointer listeners are
\* off, and no later step changes the scroll state.
C12_DestroyIsFinal ==
  /\ [](destroyed => (pendingTimers = {} /\ ~listening))
  /\ [][destroyed => scrollState' = scrollState]_vars

\* destroyed in the middle of a line, with the pointer down
C12_Witness ==
  /\ destroyed
  /\ isPointerDown
  /\ ~isTypingComplete
  /\ currentCharacterIndex > 0

\* C13: after an update() that ends with typing in progress and auto-follow
\* not paused, targetScrollY is the bottom offset.
C13_UpdateFollowsBottom ==
  [][(UpdateStep /\ ~isTypingComplete' /\ ~isScrollingPaused')
       => targetScrollY' = BottomOffset']_vars

\* only update() was called since construction, typing is in progress,
\* auto-follow is not paused and the content is taller than the viewport
C13_Witness ==
  /\ totalMs \in 1..(MaxTrackedMs - 1)
  /\ ~isTypingComplete
  /\ ~isScrollingPaused
  /\ BottomOffset < 0
  /\ targetScrollY = BottomOffset

-----------------------------------------------------------------------------
(* parseLine *)

\* the opening and closing delimiter of the three token forms
Delimiters == { <<"{", "}">>, <<":", ":">>, <<"[", "]">> }

\* text[i..j] is an emoji token: an opening delimiter, a name of one character
\* or more without the closing delimiter, the closing delimiter
IsToken(text, i, j) ==
  \E d \in Delimiters :
    /\ text[i] = d[1]
    /\ text[j] = d[2]
    /\ j > i + 1
    /\ \A k \in (i + 1)..(j - 1) : text[k] # d[2]

\* the segments from the k-th on account for the text from position pos on:
\* a text segment is the characters at its place, none of which starts a
\* token; an emoji segment is the name of the token at its place
RECURSIVE Accounts(_, _, _, _)
Accounts(parts, k, text, pos) ==
  IF k > Len(parts) THEN pos = Len(text) + 1
  ELSE LET n == Len(parts[k].content)
       IN IF parts[k].type = "text"
          THEN /\ n > 0
               /\ pos + n - 1 <= Len(text)
               /\ SubSeq(text, pos, pos + n - 1) = parts[k].content
               /\ \A i \in pos..(pos + n - 1) : \A j \in i..Len(text) : ~IsToken(text, i, j)
               /\ Accounts(parts, k + 1, text, pos + n)
          ELSE /\ parts[k].type = "emoji"
               /\ pos + n + 1 <= Len(text)
               /\ IsToken(text, pos, pos + n + 1)
               /\ SubSeq(text, pos + 1, pos + n) = parts[k].content
               /\ Accounts(parts, k + 1, text, pos + n + 2)

\* C14: parseLine returns a list of one segment or more that accounts for the
\* text in order: the text segments are the characters outside the emoji
\* tokens, each emoji segment is the name between the delimiters of its token,
\* and the empty text gives exactly one empty text segment.
C14_ParseAccountsForText ==
  (call.op = "parseLine" /\ call.returned) =>
    /\ Len(call.parts) >= 1
    /\ call.text = <<>> => call.parts = << TextPart(<<>>) >>
    /\ call.text # <<>> => Accounts(call.parts, 1, call.text, 1)

\* text around a token whose name holds another opening delimiter
C14_Witness ==
  /\ call.op = "parseLine"
  /\ call.returned
  /\ call.text = <<"a", "[", "{", "]">>
  /\ call.parts = << TextPart(<<"a">>), EmojiPart(<<"{">>) >>

-----------------------------------------------------------------------------
(* createEmojiObject *)

\* the keys under which the image of a name may be loaded: the name as it is,
\* without its colons, and between colons
OwnKeys(emojiName) ==
  { emojiName, StripColons(emojiName), Colons(StripColons(emojiName)) }

-----------------------------------------------------------------------------
(* updateLineLayout *)

LaidOut == call.op = "updateLineLayout" /\ call.returned

\* what a node of a bubble displays: the part's own object shows what
\* updateLineVisibility lets it show, a Text made by the layout is visible
\* with all its text
Displayed(node, lineData) ==
  IF node.partObject THEN Shown(lineData.partObjects[node.part + 1])
  ELSE node.text

\* the nodes of a bubble placed for the part at index (0-based)
NodesOf(bubble, index) ==
  SelectSeq(bubble.layout.nodes, LAMBDA node : node.part = index)

\* C15: an emoji token without an image renders its bracketed name: the
\* bubble holds a node with the text "[name]" for the segment, and the node
\* displays that text once the cursor is past the segment.
C15_FallbackIsInTheBubble ==
  LaidOut =>
    \A b \in 1..Len(call.bubbles) :
      LET bubble == call.bubbles[b]
      IN \A k \in 1..Len(bubble.lineData.parts) :
           (bubble.lineData.parts[k].type = "emoji"
              /\ bubble.lineData.partObjects[k].kind = "Text") =>
             /\ Len(NodesOf(bubble, k - 1)) = 1
             /\ k - 1 < bubble.partIndex =>
                  Displayed(NodesOf(bubble, k - 1)[1], bubble.lineData)
                    = <<"[">> \o bubble.lineData.parts[k].content \o <<"]">>

\* the number of characters of the part at index (0-based) that the cursor
\* has revealed
RevealedCount(bubble, index) ==
  IF index < bubble.partIndex THEN Len(bubble.lineData.parts[index + 1].content)
  ELSE IF index = bubble.partIndex
  THEN Min(bubble.charIndex, Len(bubble.lineData.parts[index + 1].content))
  ELSE 0

\* the number of characters the nodes display, from the i-th node on
RECURSIVE DisplayedCount(_, _, _)
DisplayedCount(nodes, i, lineData) ==
  IF i > Len(nodes) THEN 0
  ELSE Len(Displayed(nodes[i], lineData)) + DisplayedCount(nodes, i + 1, lineData)

\* C16: the nodes a bubble holds for a text segment are under the typing
\* cursor: they are the segment's own object, and together they display no
\* more characters of the segment than the cursor has revealed.
C16_TextNodesFollowCursor ==
  LaidOut =>
    \A b \in 1..Len(call.bubbles) :
      LET bubble == call.bubbles[b]
      IN \A k \in 1..Len(bubble.lineData.parts) :
           bubble.lineData.parts[k].type = "text" =>
             /\ \A i \in 1..Len(NodesOf(bubble, k - 1)) : NodesOf(bubble, k - 1)[i].partObject
             /\ DisplayedCount(NodesOf(bubble, k - 1), 1, bubble.lineData)
                  <= RevealedCount(bubble, k - 1)

\* C17: no text or emoji node of a bubble is wider than the bubble's maximum
\* content width, unless it is a single character.
C17_NodesWithinContentWidth ==
  LaidOut =>
    \A b \in 1..Len(call.bubbles) :
      LET layout == call.bubbles[b].layout
      IN \A i \in 1..Len(layout.nodes) :
           \/ layout.nodes[i].width <= layout.maxContentWidth
           \/ layout.nodes[i].kind = "Text" /\ Len(layout.nodes[i].text) = 1

\* the measures of the call
CallMetrics == Metrics(call.availableWidth, call.charWidth)

\* the length of the longest prefix of the remaining characters that fits a
\* row: its width and the safety margin are within the maximum content width;
\* one character when not even one fits
LongestFit(remaining) ==
  LET fitting == { n \in 1..Len(remaining) :
                     textWidth(SubSeq(remaining, 1, n), CallMetrics) + CallMetrics.margin
                       <= CallMetrics.maxContentWidth }
  IN IF fitting = {} THEN 1
     ELSE CHOOSE n \in fitting : \A o \in fitting : o <= n

\* the nodes from the i-th on are the pieces of the remaining characters
RECURSIVE ArePieces(_, _, _)
ArePieces(nodes, i, remaining) ==
  IF i > Len(nodes) THEN Len(remaining) = 0
  ELSE /\ Len(remaining) > 0
       /\ nodes[i].text = SubSeq(remaining, 1, LongestFit(remaining))
       /\ ArePieces(nodes, i + 1,
                    SubSeq(remaining, LongestFit(remaining) + 1, Len(remaining)))

\* the text parts of a bubble that are one word wider than the maximum
\* content width, by index (1-based)
WideWords(bubble) ==
  { k \in 1..Len(bubble.lineData.parts) :
      /\ bubble.lineData.parts[k].type = "text"
      /\ FirstIndexOf(bubble.lineData.parts[k].content, " ", 1) = 0
      /\ textWidth(bubble.lineData.parts[k].content, CallMetrics) > CallMetrics.maxContentWidth }

\* C18: a word wider than the maximum content width is laid out as pieces,
\* each the longest prefix of the remaining characters that fits, each on a
\* row of its own, that together spell the word; a word of 40 characters of
\* which 10 fit a row is laid out as 4 pieces.
C18_WideWordIsSplit ==
  LaidOut =>
    \A b \in 1..Len(call.bubbles) :
      \A k \in WideWords(call.bubbles[b]) :
        LET word == call.bubbles[b].lineData.parts[k].content
            pieces == NodesOf(call.bubbles[b], k - 1)
        IN /\ ArePieces(pieces, 1, word)
           /\ \A i, j \in 1..Len(pieces) : i # j => pieces[i].y # pieces[j].y
           /\ (Len(word) = 40 /\ LongestFit(word) = 10) => Len(pieces) = 4

\* the name a bubble is laid out for: a line without a name is the speaker
\* "Unknown"
SpeakerOf(bubble) ==
  IF Len(bubble.lineData.speakerName) = 0 THEN <<"U", "n", "k", "n", "o", "w", "n">>
  ELSE bubble.lineData.speakerName

\* the sum of the character codes of a name
RECURSIVE CodeSum(_)
CodeSum(name) ==
  IF Len(name) = 0 THEN 0
  ELSE CodeSum(SubSeq(name, 1, Len(name) - 1)) + charCodeAt(name[Len(name)])

\* C20: the side and the colour index of a bubble depend on the speaker name
\* alone: the bubble is right-aligned exactly when the sum of the character
\* codes of the name is even, its colour index is that sum modulo the size of
\* the palette, and two bubbles of the same speaker have the same side and
\* colour whatever lines were laid out before or between them.
C20_SideAndColourFromName ==
  LaidOut =>
    /\ \A b \in 1..Len(call.bubbles) :
         /\ call.bubbles[b].layout.isRightAligned
              <=> (CodeSum(SpeakerOf(call.bubbles[b])) % 2 = 0)
         /\ call.bubbles[b].layout.colorIndex
              = CodeSum(SpeakerOf(call.bubbles[b])) % speakerColorsLength
    /\ \A b, c \in 1..Len(call.bubbles) :
         SpeakerOf(call.bubbles[b]) = SpeakerOf(call.bubbles[c]) =>
           /\ call.bubbles[b].layout.isRightAligned = call.bubbles[c].layout.isRightAligned
           /\ call.bubbles[b].layout.colorIndex = call.bubbles[c].layout.colorIndex

\* speaker "B" laid out twice with speaker "A" in between: right, left, right
C20_Witness ==
  /\ LaidOut
  /\ call.lines = << LineWide, LineHi, LineEmo >>
  /\ call.bubbles[1].layout.isRightAligned /\ call.bubbles[1].layout.colorIndex = 0
  /\ ~call.bubbles[2].layout.isRightAligned /\ call.bubbles[2].layout.colorIndex = 5
  /\ call.bubbles[3].layout.isRightAligned /\ call.bubbles[3].layout.colorIndex = 0

-----------------------------------------------------------------------------
(* advanceTyping on an emoji *)

\* the cursor is on an emoji segment (0-based part index currentPartIndex)
OnEmoji ==
  /\ ~isTypingComplete
  /\ currentLineIndex < Len(linesData)
  /\ currentPartIndex < Len(linesData[currentLineIndex + 1].parts)
  /\ linesData[currentLineIndex + 1].parts[currentPartIndex + 1].type = "emoji"

\* an update() that runs exactly one reveal step
OneSliceStep ==
  \E deltaMS \in Deltas :
    /\ Update(deltaMS)
    /\ (lineRevealAccumulator + deltaMS) \div charRevealTime = 1

\* C22: the time-slice that reveals an emoji reveals that emoji and nothing
\* else: after it the emoji is visible, and when the line goes on the cursor
\* is at the start of the next segment and no later segment of the line shows
\* anything.
C22_EmojiSliceRevealsOnlyTheEmoji ==
  [][(OnEmoji /\ OneSliceStep) =>
       LET before == linesData[currentLineIndex + 1]
           after == linesData'[currentLineIndex + 1]
       IN /\ after.partObjects[currentPartIndex + 1].visible
          /\ currentPartIndex + 1 < Len(before.parts) =>
               /\ currentLineIndex' = currentLineIndex
               /\ currentPartIndex' = currentPartIndex + 1
               /\ currentCharacterIndex' = 0
               /\ \A p \in (currentPartIndex + 2)..Len(before.parts) :
                    Shown(after.partObjects[p]) = <<>>]_vars

-----------------------------------------------------------------------------
(* TypingAnimator *)

\* the dialogues handed to DialogueRenderer.renderDialogue
AnimatorDialogues ==
  { <<>>, << LineHi >>, << LineEmo, LineHi >>, << LineHi, LineEmo >>, << LineWords >> }

\* DialogueRenderer.renderDialogue: the render data of one line; the
\* renderer's textures are EmojiTextures
renderLine(line) ==
  LET parts == parseLine(line.text)
  IN [ parts |-> parts,
       characterText |-> TextObject(line.name \o <<":">>),
       partObjects |->
         [ k \in 1..Len(parts) |->
             IF parts[k].type = "emoji"
             THEN IF parts[k].content \in EmojiTextures
                  THEN SpriteObject(parts[k].content)
                  ELSE TextObject(parts[k].content)
             ELSE TextObject(parts[k].content) ] ]

renderDialogue(lines) == [ k \in 1..Len(lines) |-> renderLine(lines[k]) ]

\* new TypingAnimator(typingSpeed); skipped is history: skipToEnd() was called
\* and neither setLines() nor reset() since
NewTypingAnimator ==
  [ built |-> TRUE,
    linesData |-> <<>>,
    currentLineIndex |-> 0,
    currentPartIndex |-> 0,
    currentCharacterIndex |-> 0,
    lineRevealAccumulator |-> 0,
    isTypingComplete |-> FALSE,
    skipped |-> FALSE ]

hidden(lineData) ==
  [ lineData EXCEPT
      !.characterText.visible = FALSE,
      !.partObjects = [ k \in DOMAIN @ |-> [ @[k] EXCEPT !.visible = FALSE ] ] ]

reset(a) ==
  [ a EXCEPT
      !.currentLineIndex = 0,
      !.currentPartIndex = 0,
      !.currentCharacterIndex = 0,
      !.lineRevealAccumulator = 0,
      !.isTypingComplete = FALSE,
      !.linesData = [ k \in DOMAIN @ |-> hidden(@[k]) ],
      !.skipped = FALSE ]

setLines(a, lines) == reset([ a EXCEPT !.linesData = lines ])

\* the next line is the current one; typing is complete past the last line
nextLine(a) ==
  [ a EXCEPT
      !.currentLineIndex = @ + 1,
      !.currentPartIndex = 0,
      !.currentCharacterIndex = 0,
      !.isTypingComplete = a.currentLineIndex + 1 >= Len(a.linesData) ]

\* the emoji of the current part is shown and the cursor is on the next part
emojiRevealed(a) ==
  [ a EXCEPT
      !.linesData[a.currentLineIndex + 1].partObjects[a.currentPartIndex + 1].visible = TRUE,
      !.currentPartIndex = @ + 1,
      !.currentCharacterIndex = 0 ]

\* one more character of the current text part is shown
characterRevealed(a, fullText) ==
  [ a EXCEPT
      !.linesData[a.currentLineIndex + 1].partObjects[a.currentPartIndex + 1] =
         [ @ EXCEPT
             !.visible = TRUE,
             !.text = SubSeq(fullText, 1, Min(a.currentCharacterIndex + 1, Len(fullText))) ],
      !.currentPartIndex =
         IF a.currentCharacterIndex + 1 >= Len(fullText) THEN @ + 1 ELSE @,
      !.currentCharacterIndex =
         IF a.currentCharacterIndex + 1 >= Len(fullText) THEN 0 ELSE @ + 1 ]

RECURSIVE revealNextCharacters(_, _)
revealNextCharacters(a, count) ==
  IF count <= 0 \/ a.isTypingComplete THEN a
  ELSE IF a.currentPartIndex >= Len(a.linesData[a.currentLineIndex + 1].parts)
  THEN revealNextCharacters(nextLine(a), count)
  ELSE IF a.linesData[a.currentLineIndex + 1].parts[a.currentPartIndex + 1].type = "emoji"
  THEN revealNextCharacters(emojiRevealed(a), count - 1)
  ELSE IF a.linesData[a.currentLineIndex + 1].partObjects[a.currentPartIndex + 1].kind = "Text"
  THEN revealNextCharacters(
         characterRevealed(a, a.linesData[a.currentLineIndex + 1].parts[a.currentPartIndex + 1].content),
         count - 1)
  ELSE revealNextCharacters(a, count - 1)

\* the current line's label is shown and deltaMS is added to the accumulator
accumulated(a, deltaMS) ==
  [ a EXCEPT
      !.linesData[a.currentLineIndex + 1].characterText.visible = TRUE,
      !.lineRevealAccumulator = @ + deltaMS ]

\* update() stops at once after completion (the mutant does not)
updateNeverStops(a) == FALSE
updateStopsWhenComplete(a) == a.isTypingComplete

update(a, deltaMS) ==
  IF updateStopsWhenComplete(a) THEN a
  ELSE IF a.currentLineIndex >= Len(a.linesData)
  THEN [ a EXCEPT !.isTypingComplete = TRUE ]
  ELSE IF ((a.lineRevealAccumulator + deltaMS) * typingSpeed) \div 1000 > 0
  THEN revealNextCharacters(
         [ accumulated(a, deltaMS) EXCEPT !.lineRevealAccumulator = 0 ],
         ((a.lineRevealAccumulator + deltaMS) * typingSpeed) \div 1000)
  ELSE accumulated(a, deltaMS)

skippedLine(lineData) ==
  [ lineData EXCEPT
      !.characterText.visible = TRUE,
      !.partObjects =
         [ k \in DOMAIN @ |->
             IF @[k].kind = "Text" /\ lineData.parts[k].type = "text"
             THEN [ @[k] EXCEPT !.visible = TRUE, !.text = lineData.parts[k].content ]
             ELSE [ @[k] EXCEPT !.visible = TRUE ] ] ]

skipToEnd(a) ==
  [ a EXCEPT
      !.linesData = [ k \in DOMAIN @ |-> skippedLine(@[k]) ],
      !.isTypingComplete = TRUE,
      !.skipped = TRUE ]

besidesAnimator ==
  << engineVars, pureVars, smoothing, pool, animationManager, sceneManager,
     sceneVars >>

SetLines(lines) ==
  /\ animator' = setLines(animator, renderDialogue(lines))
  /\ UNCHANGED besidesAnimator

Reset ==
  /\ animator' = reset(animator)
  /\ UNCHANGED besidesAnimator

AnimatorUpdate(deltaMS) ==
  /\ animator' = update(animator, deltaMS)
  /\ UNCHANGED besidesAnimator

SkipToEnd ==
  /\ animator' = skipToEnd(animator)
  /\ UNCHANGED besidesAnimator

AnimatorInit ==
  /\ EngineInit /\ dialogue = <<>> /\ call = NoCall
  /\ ScenesNotBuilt
  /\ animator = NewTypingAnimator
  /\ smoothing = NotBuilt
  /\ pool = NotBuilt
  /\ animationManager = NotBuilt
  /\ sceneManager = NotBuilt

AnimatorNext ==
  \/ \E lines \in AnimatorDialogues : SetLines(lines)
  \/ Reset
  \/ \E deltaMS \in Deltas : AnimatorUpdate(deltaMS)
  \/ SkipToEnd

AnimatorSpec == AnimatorInit /\ [][AnimatorNext]_vars

\* every label and every part object of the animator's lines is visible, a
\* text part's object with the part's whole text
EverythingShown ==
  \A k \in 1..Len(animator.linesData) :
    /\ animator.linesData[k].characterText.visible
    /\ \A p \in 1..Len(animator.linesData[k].parts) :
         /\ animator.linesData[k].partObjects[p].visible
         /\ Shown(animator.linesData[k].partObjects[p])
              = ShownInFull(animator.linesData[k].parts[p], animator.linesData[k].partObjects[p])

\* C23: after skipToEnd(), from whatever state, every speaker label and every
\* segment of every line is visible with its full text and the animator
\* reports complete, and an update() after it changes nothing
C23_SkipToEndShowsAllAndFreezes ==
  /\ [](animator.skipped => EverythingShown /\ animator.isTypingComplete)
  /\ [][\A deltaMS \in Deltas :
          animator.skipped /\ AnimatorUpdate(deltaMS) => animator' = animator]_vars

\* skipToEnd() was called in the middle of a word of the second line
C23_Witness ==
  /\ animator.skipped
  /\ Len(animator.linesData) = 2
  /\ animator.currentLineIndex = 1
  /\ animator.currentCharacterIndex = 1
  /\ animator.lineRevealAccumulator = 25
  /\ animator.isTypingComplete

-----------------------------------------------------------------------------
(* ScrollManager.updateScroll: the smoothed offset *)

\* offsets are in thousandths of a pixel
Milli == 1000
\* SCROLL_SMOOTHING is 0.1: a tenth of the difference is added on a tick
SmoothingTenth == 10
\* the residual below which the offset snaps to the target: 0.1 px
SnapEpsilon == Milli \div 10
\* the targets a drag or scrollToBottom() sets: 0 and two scrolled offsets
ScrollTargets == { 0, -5 * Milli, -12 * Milli }

Abs(n) == IF n < 0 THEN -n ELSE n

\* new ScrollManager: the fields updateScroll reads, and the pause flag
NewSmoothing ==
  [ built |-> TRUE,
    currentScrollY |-> 0,
    targetScrollY |-> 0,
    isScrollingPaused |-> FALSE ]

\* scrollDiff * SCROLL_SMOOTHING, to the thousandth of a pixel
smoothed(scrollDiff) ==
  IF scrollDiff >= 0 THEN scrollDiff \div SmoothingTenth
  ELSE -((-scrollDiff) \div SmoothingTenth)

\* the offset snaps to the target (the mutant never snaps)
snapsNever(scrollDiff) == FALSE
snaps(scrollDiff) == Abs(scrollDiff) < SnapEpsilon

updateScroll(m) ==
  IF snaps(m.targetScrollY - m.currentScrollY)
  THEN [ m EXCEPT !.currentScrollY = m.targetScrollY ]
  ELSE [ m EXCEPT !.currentScrollY = @ + smoothed(m.targetScrollY - m.currentScrollY) ]

besidesSmoothing ==
  << engineVars, pureVars, animator, pool, animationManager, sceneManager,
     sceneVars >>

\* DialogueManager.update(deltaMS) calls updateScroll(deltaMS) on both of its
\* paths; deltaMS is not used
ScrollTick ==
  /\ smoothing' = updateScroll(smoothing)
  /\ UNCHANGED besidesSmoothing

\* onPointerMove or scrollToBottom() sets the target
Retarget(target) ==
  /\ smoothing' = [ smoothing EXCEPT !.targetScrollY = target ]
  /\ UNCHANGED besidesSmoothing

\* pauseAutoScroll()
SmoothingPause ==
  /\ smoothing' = [ smoothing EXCEPT !.isScrollingPaused = TRUE ]
  /\ UNCHANGED besidesSmoothing

\* the resume timer's callback
SmoothingResume ==
  /\ smoothing' = [ smoothing EXCEPT !.isScrollingPaused = FALSE ]
  /\ UNCHANGED besidesSmoothing

SmoothingInit ==
  /\ EngineInit /\ dialogue = <<>> /\ call = NoCall
  /\ ScenesNotBuilt
  /\ smoothing = NewSmoothing
  /\ animator = NotBuilt
  /\ pool = NotBuilt
  /\ animationManager = NotBuilt
  /\ sceneManager = NotBuilt

SmoothingNext ==
  \/ ScrollTick
  \/ \E target \in ScrollTargets : Retarget(target)
  \/ SmoothingPause
  \/ SmoothingResume

SmoothingSpec == SmoothingInit /\ [][SmoothingNext]_vars

\* the application's ticker calls update() on every frame
SmoothingLiveSpec == SmoothingSpec /\ WF_vars(ScrollTick)

\* C24: a tick moves the offset towards the target whether or not auto-follow
\* is paused, and if the target stays fixed the offset is, after finitely many
\* ticks, equal to the target and stays equal
C24_SmoothingSettles ==
  /\ [][ScrollTick /\ smoothing.currentScrollY # smoothing.targetScrollY
          => Abs(smoothing.targetScrollY - smoothing'.currentScrollY)
               < Abs(smoothing.targetScrollY - smoothing.currentScrollY)]_vars
  /\ \A target \in ScrollTargets :
       <>[](smoothing.targetScrollY = target)
         => <>[](smoothing.currentScrollY = target)

\* while auto-follow is paused the offset, on its way, reached the target
C24_Witness ==
  /\ smoothing.isScrollingPaused
  /\ smoothing.targetScrollY = -12 * Milli
  /\ smoothing.currentScrollY = smoothing.targetScrollY

-----------------------------------------------------------------------------
(* createDialogueLine on an incomplete line *)

LineCreated == call.op = "createDialogueLine" /\ call.returned

\* C25: createDialogueLine does not raise for a line without a speaker or
\* without text, a null or undefined line included; the label of a line
\* without a speaker is "Unknown" and a line without text has one empty text
\* segment
C25_IncompleteLineIsDefaulted ==
  LineCreated /\ (nameIfAny(call.line) = <<>> \/ textIfAny(call.line) = <<>>)
    => /\ ~call.raised
       /\ nameIfAny(call.line) = <<>>
            => call.lineData.characterText.text
                 = <<"U", "n", "k", "n", "o", "w", "n", ":">>
       /\ textIfAny(call.line) = <<>>
            => call.lineData.parts = << TextPart(<<>>) >>

-----------------------------------------------------------------------------
(* ObjectPool.ts *)

\* the factory makes at most MaxObjects objects; an object is its number
MaxObjects == 4
\* the arguments of the constructor
InitialSizes == { 0, 1, 3 }
MaxSizes == { -1, 0, 1, 2 }
\* the call of the factory that throws during pre-population, 0 for none
FactoryFailures == { 0, 2 }

\* the stored objects after pre-population: the factory is called until it
\* throws or actualInitialSize objects are stored
prepopulated(actualInitialSize, factoryFailsAt) ==
  [ i \in 1..(IF factoryFailsAt \in 1..actualInitialSize
              THEN factoryFailsAt - 1 ELSE actualInitialSize) |-> i ]

\* maximumSize = Math.max(0, maxSize) (the mutant keeps maxSize + 1)
maximumSizeOneMore(maxSize) == Max(0, maxSize) + 1
maximumSizeOf(maxSize) == Max(0, maxSize)

\* new ObjectPool(factory, reset, initialSize, maxSize); maxSize, made, op,
\* raised and resetThrew are history: the argument, the number of objects the
\* factory made, the last call, whether it raised and whether reset threw in it
NewObjectPool(initialSize, maxSize, factoryFailsAt) ==
  [ built |-> TRUE,
    pool |-> prepopulated(Min(initialSize, maximumSizeOf(maxSize)), factoryFailsAt),
    maximumSize |-> maximumSizeOf(maxSize),
    maxSize |-> maxSize,
    made |-> Len(prepopulated(Min(initialSize, maximumSizeOf(maxSize)), factoryFailsAt)),
    op |-> "constructor",
    raised |-> FALSE,
    resetThrew |-> FALSE ]

\* release() pushes after reset returned (the mutant pushes before reset runs)
pushedBeforeReset(stored, obj, resetThrows) == Append(stored, obj)
pushedAfterReset(stored, obj, resetThrows) ==
  IF resetThrows THEN stored ELSE Append(stored, obj)

\* the stored objects after release(obj)
release(stored, maximumSize, obj, resetThrows) ==
  IF Len(stored) < maximumSize
  THEN pushedAfterReset(stored, obj, resetThrows)
  ELSE stored

\* the stored objects after releaseMany(objs); reset throws for the objects in
\* broken
RECURSIVE releaseMany(_, _, _, _)
releaseMany(stored, maximumSize, objs, broken) ==
  IF Len(objs) = 0 THEN stored
  ELSE releaseMany(release(stored, maximumSize, Head(objs), Head(objs) \in broken),
                   maximumSize, Tail(objs), broken)

besidesPool ==
  << engineVars, pureVars, animator, smoothing, animationManager, sceneManager,
     sceneVars >>

\* get(): the last stored object, or a new one from the factory, which may throw
Get(factoryThrows) ==
  /\ IF Len(pool.pool) > 0
     THEN pool' = [ pool EXCEPT !.pool = SubSeq(@, 1, Len(@) - 1),
                                !.op = "get", !.raised = FALSE, !.resetThrew = FALSE ]
     ELSE /\ pool.made < MaxObjects
          /\ pool' = [ pool EXCEPT !.made = IF factoryThrows THEN @ ELSE @ + 1,
                                   !.op = "get", !.raised = factoryThrows,
                                   !.resetThrew = FALSE ]
  /\ UNCHANGED besidesPool

\* release(obj) of an object the factory made
Release(obj, resetThrows) ==
  /\ obj \in 1..pool.made
  /\ pool' = [ pool EXCEPT
                 !.pool = release(@, pool.maximumSize, obj, resetThrows),
                 !.op = "release", !.raised = FALSE,
                 !.resetThrew = resetThrows /\ Len(pool.pool) < pool.maximumSize ]
  /\ UNCHANGED besidesPool

\* releaseMany(objs) of objects the factory made
ReleaseMany(objs, broken) ==
  /\ \A k \in 1..Len(objs) : objs[k] \in 1..pool.made
  /\ pool' = [ pool EXCEPT
                 !.pool = releaseMany(@, pool.maximumSize, objs, broken),
                 !.op = "releaseMany", !.raised = FALSE, !.resetThrew = FALSE ]
  /\ UNCHANGED besidesPool

\* releaseMany(objs) of something that is not an array
ReleaseManyNotAnArray ==
  /\ pool' = [ pool EXCEPT !.op = "releaseMany", !.raised = FALSE,
                           !.resetThrew = FALSE ]
  /\ UNCHANGED besidesPool

Clear ==
  /\ pool' = [ pool EXCEPT !.pool = <<>>, !.op = "clear", !.raised = FALSE,
                           !.resetThrew = FALSE ]
  /\ UNCHANGED besidesPool

PoolInit ==
  /\ EngineInit /\ dialogue = <<>> /\ call = NoCall
  /\ ScenesNotBuilt
  /\ pool \in { NewObjectPool(initialSize, maxSize, factoryFailsAt) :
                  initialSize \in InitialSizes, maxSize \in MaxSizes,
                  factoryFailsAt \in FactoryFailures }
  /\ animator = NotBuilt
  /\ smoothing = NotBuilt
  /\ animationManager = NotBuilt
  /\ sceneManager = NotBuilt

PoolNext ==
  \/ \E factoryThrows \in BOOLEAN : Get(factoryThrows)
  \/ \E obj \in 1..MaxObjects, resetThrows \in BOOLEAN : Release(obj, resetThrows)
  \/ \E a, b \in 1..MaxObjects, broken \in SUBSET (1..MaxObjects) :
       ReleaseMany(<< a, b >>, broken)
  \/ ReleaseManyNotAnArray
  \/ Clear

PoolSpec == PoolInit /\ [][PoolNext]_vars

\* C26: whatever the calls, the pool stores at most maxSize objects, none when
\* maxSize is negative
C26_StoredAtMostMaxSize ==
  Len(pool.pool) <= (IF pool.maxSize < 0 THEN 0 ELSE pool.maxSize)

\* the pool is full, more objects exist than it stores, and a release left it so
C26_Witness ==
  /\ pool.op \in { "release", "releaseMany" }
  /\ pool.maxSize = 2
  /\ Len(pool.pool) = 2
  /\ pool.made = MaxObjects

\* C27: release(obj) stores obj only once reset(obj) returned: when reset
\* throws, release raises nothing, obj is not stored and the stored objects
\* are what they were
C27_ResetFailureStoresNothing ==
  [][\A obj \in 1..MaxObjects :
       Release(obj, TRUE) => pool'.pool = pool.pool /\ ~pool'.raised]_vars

\* reset threw in a release while the pool had room and stored something
C27_Witness ==
  /\ pool.op = "release"
  /\ pool.resetThrew
  /\ Len(pool.pool) = 1
  /\ pool.maximumSize = 2

-----------------------------------------------------------------------------
(* AnimationManager.ts *)

\* the z-index counter rises at most MaxRaises times
MaxRaises == 3
\* the counter's first value
BaseZIndex == 1000
\* the ids animations are tracked under
AnimationIds == { "a", "b" }
\* the animated objects: display objects 1 and 2 have a zIndex, 3 is a plain
\* object without one
AnimationTargets == { 1, 2, 3 }
Sortable == { 1, 2 }
\* the zIndex the display objects start with
InitialZIndex == [ target \in Sortable |-> IF target = 1 THEN 0 ELSE 7 ]

\* originalZIndex as animate() captures it
Undefined == [defined |-> FALSE]
Defined(zIndex) == [defined |-> TRUE, zIndex |-> zIndex]

\* new AnimationManager, and the objects it animates; returned is history:
\* what the last call of animate() returned, "none" before any
NewAnimationManager ==
  [ built |-> TRUE,
    animations |-> [ id \in {} |-> 0 ],
    highestZIndex |-> BaseZIndex,
    zIndex |-> InitialZIndex,
    returned |-> "none" ]

\* isAnimating(id) (the mutant never finds the id)
isAnimatingNever(m, id) == FALSE
isAnimating(m, id) == id \in DOMAIN m.animations

\* the tween of animate(target, id, props, {temporaryZIndex}): the values its
\* callbacks closed over, and whether gsap has started it
Tween(m, target, temporaryZIndex) ==
  [ target |-> target,
    temporaryZIndex |-> temporaryZIndex,
    originalZIndex |-> IF temporaryZIndex /\ target \in Sortable
                       THEN Defined(m.zIndex[target]) ELSE Undefined,
    started |-> FALSE ]

\* the map with id set to tween
tracked(animations, id, tween) ==
  [ k \in DOMAIN animations \cup { id } |-> IF k = id THEN tween ELSE animations[k] ]
\* the map with id deleted
untracked(animations, id) ==
  [ k \in DOMAIN animations \ { id } |-> animations[k] ]

animate(m, target, id, temporaryZIndex) ==
  IF isAnimating(m, id) THEN [ m EXCEPT !.returned = "null" ]
  ELSE IF temporaryZIndex /\ target \in Sortable
  THEN [ m EXCEPT
           !.highestZIndex = @ + 1,
           !.zIndex[target] = m.highestZIndex + 1,
           !.animations = tracked(@, id, Tween(m, target, temporaryZIndex)),
           !.returned = "tween" ]
  ELSE [ m EXCEPT
           !.animations = tracked(@, id, Tween(m, target, temporaryZIndex)),
           !.returned = "tween" ]

\* the wrapped onStart of the tween tracked under id
onStart(m, id) ==
  IF m.animations[id].temporaryZIndex /\ m.animations[id].target \in Sortable
  THEN [ m EXCEPT !.zIndex[m.animations[id].target] = m.highestZIndex,
                  !.animations[id].started = TRUE ]
  ELSE [ m EXCEPT !.animations[id].started = TRUE ]

\* the wrapped onComplete of the tween tracked under id
onComplete(m, id) ==
  IF /\ m.animations[id].temporaryZIndex
     /\ m.animations[id].originalZIndex.defined
     /\ m.animations[id].target \in Sortable
  THEN [ m EXCEPT
           !.zIndex[m.animations[id].target] = m.animations[id].originalZIndex.zIndex,
           !.animations = untracked(@, id) ]
  ELSE [ m EXCEPT !.animations = untracked(@, id) ]

\* stop(id): tween.kill() runs no callback
stop(m, id) ==
  IF id \in DOMAIN m.animations
  THEN [ m EXCEPT !.animations = untracked(@, id) ]
  ELSE m

stopAll(m) == [ m EXCEPT !.animations = [ id \in {} |-> 0 ] ]

besidesAnimationManager ==
  << engineVars, pureVars, animator, smoothing, pool, sceneManager,
     sceneVars >>

Animate(target, id, temporaryZIndex) ==
  /\ animationManager.highestZIndex < BaseZIndex + MaxRaises
  /\ animationManager' = animate(animationManager, target, id, temporaryZIndex)
  /\ UNCHANGED besidesAnimationManager

\* gsap renders the tween for the first time
TweenStart(id) ==
  /\ id \in DOMAIN animationManager.animations
  /\ ~animationManager.animations[id].started
  /\ animationManager' = onStart(animationManager, id)
  /\ UNCHANGED besidesAnimationManager

\* gsap renders the tween for the last time
TweenComplete(id) ==
  /\ id \in DOMAIN animationManager.animations
  /\ animationManager.animations[id].started
  /\ animationManager' = onComplete(animationManager, id)
  /\ UNCHANGED besidesAnimationManager

Stop(id) ==
  /\ animationManager' = stop(animationManager, id)
  /\ UNCHANGED besidesAnimationManager

StopAll ==
  /\ animationManager' = stopAll(animationManager)
  /\ UNCHANGED besidesAnimationManager

AnimationInit ==
  /\ EngineInit /\ dialogue = <<>> /\ call = NoCall
  /\ ScenesNotBuilt
  /\ animationManager = NewAnimationManager
  /\ animator = NotBuilt
  /\ smoothing = NotBuilt
  /\ pool = NotBuilt
  /\ sceneManager = NotBuilt

AnimationNext ==
  \/ \E target \in AnimationTargets, id \in AnimationIds, temporaryZIndex \in BOOLEAN :
       Animate(target, id, temporaryZIndex)
  \/ \E id \in AnimationIds : TweenStart(id)
  \/ \E id \in AnimationIds : TweenComplete(id)
  \/ \E id \in AnimationIds : Stop(id)
  \/ StopAll

AnimationSpec == AnimationInit /\ [][AnimationNext]_vars

\* C28: animate(target, id, ...) while id is animating returns null and leaves
\* the tracked tweens, every zIndex and the z-index counter as they were
C28_SecondAnimateIsRefused ==
  [][\A target \in AnimationTargets, id \in AnimationIds, temporaryZIndex \in BOOLEAN :
       Animate(target, id, temporaryZIndex) /\ id \in DOMAIN animationManager.animations
         => /\ animationManager'.returned = "null"
            /\ animationManager'.animations = animationManager.animations
            /\ animationManager'.zIndex = animationManager.zIndex
            /\ animationManager'.highestZIndex = animationManager.highestZIndex]_vars

\* animate() was refused for an id whose tween holds a raised zIndex
C28_Witness ==
  /\ animationManager.returned = "null"
  /\ "a" \in DOMAIN animationManager.animations
  /\ animationManager.animations["a"].temporaryZIndex
  /\ animationManager.animations["a"].target = 1
  /\ animationManager.zIndex[1] > BaseZIndex

\* the animation tracked under id was started with temporaryZIndex on an
\* object that has a zIndex
RaisedFor(id) ==
  /\ id \in DOMAIN animationManager.animations
  /\ animationManager.animations[id].originalZIndex.defined

\* the animation tracked under id ends: it completes, or stop(id) or stopAll()
\* is called
Ends(id) == TweenComplete(id) \/ Stop(id) \/ StopAll

\* C29: when an animation started with temporaryZIndex ends, by completing or
\* by stop(id) or stopAll(), its target's zIndex is what it was when animate()
\* was called and the id is not tracked
C29_EndRestoresZIndex ==
  [][\A id \in AnimationIds :
       RaisedFor(id) /\ Ends(id)
         => /\ id \notin DOMAIN animationManager'.animations
            /\ animationManager'.zIndex[animationManager.animations[id].target]
                 = animationManager.animations[id].originalZIndex.zIndex]_vars

-----------------------------------------------------------------------------
(* SceneManager.ts *)

\* at most MaxScenes scenes are constructed; a scene is its number, in the
\* order of construction
MaxScenes == 4
\* no scene: currentScene is null
NoScene == 0
\* the scene classes handed to changeScene, and those whose init() is async
SceneClasses == { "PreloaderScene", "MenuScene", "MagicWordsScene" }
AsyncScenes == { "PreloaderScene", "MagicWordsScene" }

\* new SceneManager(app) and the stage; scenes is every scene constructed so
\* far: its class, whether its init() promise is pending, and history: the
\* number of destroy() calls on it and whether, when it was constructed, every
\* scene before it was off the stage and destroyed once
NewSceneManager ==
  [ built |-> TRUE,
    currentScene |-> NoScene,
    stage |-> {},
    scenes |-> <<>> ]

\* stage.removeChild(currentScene.container) (the mutant leaves it on)
stageKeeping(stage, scene) == stage
stageWithout(stage, scene) == stage \ { scene }

\* the first half of changeScene: the current scene, if any, is taken off the
\* stage and destroyed, and currentScene is null
currentDestroyed(m) ==
  IF m.currentScene = NoScene THEN m
  ELSE [ m EXCEPT
           !.stage = stageWithout(@, m.currentScene),
           !.scenes[m.currentScene].destroyed = @ + 1,
           !.currentScene = NoScene ]

\* every scene constructed so far is off the stage and destroyed once
allGone(m) ==
  \A i \in 1..Len(m.scenes) : i \notin m.stage /\ m.scenes[i].destroyed = 1

\* the second half: the scene is constructed, becomes the current one, is
\* put on the stage and its init() is called
sceneEntered(m, NewSceneClass) ==
  [ m EXCEPT
      !.scenes = Append(@, [ class |-> NewSceneClass,
                             initPending |-> NewSceneClass \in AsyncScenes,
                             destroyed |-> 0,
                             predecessorsGone |-> allGone(m) ]),
      !.currentScene = Len(m.scenes) + 1,
      !.stage = @ \cup { Len(m.scenes) + 1 } ]

changeScene(m, NewSceneClass) == sceneEntered(currentDestroyed(m), NewSceneClass)

besidesSceneManager ==
  << engineVars, pureVars, animator, smoothing, pool, animationManager,
     sceneVars >>

\* changeScene(NewSceneClass), from a button, from the bootstrap or from the
\* continuation of PreloaderScene.init()
ChangeScene(NewSceneClass) ==
  /\ Len(sceneManager.scenes) < MaxScenes
  /\ sceneManager' = changeScene(sceneManager, NewSceneClass)
  /\ UNCHANGED besidesSceneManager

\* the init() promise of a scene settles, of a replaced scene too: the
\* callback calls resize() on the current scene, or logs the error
InitSettles(scene) ==
  /\ scene \in 1..Len(sceneManager.scenes)
  /\ sceneManager.scenes[scene].initPending
  /\ sceneManager' = [ sceneManager EXCEPT !.scenes[scene].initPending = FALSE ]
  /\ UNCHANGED besidesSceneManager

SceneInit ==
  /\ EngineInit /\ dialogue = <<>> /\ call = NoCall
  /\ ScenesNotBuilt
  /\ sceneManager = NewSceneManager
  /\ animator = NotBuilt
  /\ smoothing = NotBuilt
  /\ pool = NotBuilt
  /\ animationManager = NotBuilt

SceneNext ==
  \/ \E NewSceneClass \in SceneClasses : ChangeScene(NewSceneClass)
  \/ \E scene \in 1..MaxScenes : InitSettles(scene)

SceneSpec == SceneInit /\ [][SceneNext]_vars

\* C30: whatever the changeScene calls, also while an earlier scene's init()
\* is pending, at most one scene container is on the stage and it is the
\* current scene's, and every replaced scene was taken off the stage and
\* destroyed exactly once before its successor was constructed
C30_OneSceneOnStage ==
  /\ Cardinality(sceneManager.stage) <= 1
  /\ sceneManager.stage \subseteq { sceneManager.currentScene }
  /\ \A i \in 1..Len(sceneManager.scenes) :
       /\ sceneManager.scenes[i].predecessorsGone
       /\ i # sceneManager.currentScene
            => i \notin sceneManager.stage /\ sceneManager.scenes[i].destroyed = 1
       /\ i = sceneManager.currentScene
            => i \in sceneManager.stage /\ sceneManager.scenes[i].destroyed = 0

\* the preloader and its successor were replaced while their init() was pending
C30_Witness ==
  /\ Len(sceneManager.scenes) = 3
  /\ sceneManager.scenes[1].class = "PreloaderScene"
  /\ sceneManager.scenes[1].initPending
  /\ sceneManager.scenes[2].initPending
  /\ sceneManager.currentScene = 3
  /\ sceneManager.stage = { 3 }

-----------------------------------------------------------------------------
(* TypingAnimator: labels *)

\* C31: in a TypingAnimator, whatever the tick, a line with a visible segment
\* has a visible speaker label
C31_LabelShownWithSegments ==
  \A k \in 1..Len(animator.linesData) :
    (\E p \in 1..Len(animator.linesData[k].partObjects) :
       animator.linesData[k].partObjects[p].visible)
      => animator.linesData[k].characterText.visible

-----------------------------------------------------------------------------
(* appendMessage and the pause *)

AppendStep == \E line \in AppendLines : AppendMessage(line)

\* C32: appendMessage leaves the auto-follow pause flag and the pending
\* resume timer exactly as they were
C32_AppendKeepsThePause ==
  [][AppendStep => /\ isScrollingPaused' = isScrollingPaused
                   /\ scrollPauseTimeout' = scrollPauseTimeout
                   /\ pendingTimers' = pendingTimers]_vars

\* an append made after a release, while the resume timer is pending
C32_Witness ==
  /\ lastOperation = "appendMessage"
  /\ isScrollingPaused
  /\ ~isPointerDown
  /\ timerPending
  /\ scrollPauseTimeout # NoTimeout

-----------------------------------------------------------------------------
(* CardManager *)

\* numCards: the cards are 1..NumCards, card k is named card_(k-1)
NumCards == 3
\* moveTopCard moves a card at most MaxMoves times
MaxMoves == 4
Cards == 1..NumCards

\* arrangeStack(stack, position): every card of the stack that is not being
\* animated gets its index as zIndex
arrangeStack(zIndex, stack, animations) ==
  [ card \in DOMAIN zIndex |->
      IF card \notin DOMAIN animations /\ (\E i \in 1..Len(stack) : stack[i] = card)
      THEN (CHOOSE i \in 1..Len(stack) : stack[i] = card) - 1
      ELSE zIndex[card] ]

\* new CardManager(container, texture, numCards, ...): resetCards(numCards)
\* takes the cards from the pool, puts them on stack 1 and arranges it;
\* managerHighestZIndex, animations are the fields of its AnimationManager,
\* moved and completed are history: what the last moveTopCard() returned and
\* did, and the card whose animation completed last
NewCardManager ==
  [ built |-> TRUE,
    stack1 |-> [ i \in 1..NumCards |-> i ],
    stack2 |-> <<>>,
    isStack1Source |-> TRUE,
    highestZIndex |-> BaseZIndex,
    managerHighestZIndex |-> BaseZIndex,
    animations |-> [ card \in {} |-> 0 ],
    zIndex |-> [ card \in Cards |-> card - 1 ],
    moved |-> [ returned |-> FALSE, fromStack1 |-> FALSE, stack1Held |-> 0 ],
    completed |-> 0 ]

\* destinationStack.push(cardToMove) (the mutant drops the card)
pushedNowhere(stack, card) == stack
pushed(stack, card) == Append(stack, card)

\* moveTopCard() when the source stack is empty or its top card is animated:
\* only the direction flips
moveRefused(m) ==
  [ m EXCEPT
      !.isStack1Source = ~@,
      !.moved = [ returned |-> FALSE, fromStack1 |-> m.isStack1Source,
                  stack1Held |-> Len(m.stack1) ] ]

\* moveTopCard() moving the top card of source: the card's zIndex is raised
\* to ++highestZIndex, animate(card, id, props, {temporaryZIndex: true, ...})
\* captures that as originalZIndex and raises it to its own
\* ++highestZIndex, and the direction flips
moveMade(m, source, card) ==
  [ m EXCEPT
      !.stack1 = IF m.isStack1Source THEN SubSeq(source, 1, Len(source) - 1)
                 ELSE pushed(@, card),
      !.stack2 = IF m.isStack1Source THEN pushed(@, card)
                 ELSE SubSeq(source, 1, Len(source) - 1),
      !.highestZIndex = @ + 1,
      !.managerHighestZIndex = @ + 1,
      !.zIndex[card] = m.managerHighestZIndex + 1,
      !.animations = tracked(@, card,
                             [ originalZIndex |-> m.highestZIndex + 1,
                               toStack2 |-> m.isStack1Source,
                               started |-> FALSE ]),
      !.isStack1Source = ~@,
      !.moved = [ returned |-> TRUE, fromStack1 |-> m.isStack1Source,
                  stack1Held |-> Len(m.stack1) ] ]

moveTopCardFrom(m, source) ==
  IF Len(source) = 0 THEN moveRefused(m)
  ELSE IF source[Len(source)] \in DOMAIN m.animations THEN moveRefused(m)
  ELSE moveMade(m, source, source[Len(source)])

moveTopCard(m) ==
  moveTopCardFrom(m, IF m.isStack1Source THEN m.stack1 ELSE m.stack2)

\* the tween's onStart: the manager's wrapper sets its highestZIndex, then
\* the move's own onStart sets the CardManager's
cardStarted(m, card) ==
  [ m EXCEPT !.zIndex[card] = m.highestZIndex,
             !.animations[card].started = TRUE ]

\* the length of the stack the card was moved to
destinationLength(m, card) ==
  IF m.animations[card].toStack2 THEN Len(m.stack2) ELSE Len(m.stack1)

\* the zIndex after the tween's onComplete: the move's own onComplete sets
\* destinationStack.length - 1, then the manager's wrapper restores
\* originalZIndex (the mutant restores nothing)
finalZIndexOfMove(m, card) == destinationLength(m, card) - 1
finalZIndex(m, card) == m.animations[card].originalZIndex

cardCompleted(m, card) ==
  [ m EXCEPT !.zIndex[card] = finalZIndex(m, card),
             !.animations = untracked(@, card),
             !.completed = card ]

\* updateStackPositions(...): both stacks are arranged again
updateStackPositions(m) ==
  [ m EXCEPT
      !.zIndex = arrangeStack(arrangeStack(@, m.stack1, m.animations),
                              m.stack2, m.animations) ]

besidesCardManager ==
  << engineVars, pureVars, animator, smoothing, pool, animationManager,
     sceneManager, particleManager, magicWords >>

\* AceOfShadowsScene.update when the move timer has run MOVE_INTERVAL
MoveTopCard ==
  /\ cardManager.highestZIndex < BaseZIndex + MaxMoves
  /\ cardManager' = moveTopCard(cardManager)
  /\ UNCHANGED besidesCardManager

\* gsap renders the card's tween for the first time
CardStart(card) ==
  /\ card \in DOMAIN cardManager.animations
  /\ ~cardManager.animations[card].started
  /\ cardManager' = cardStarted(cardManager, card)
  /\ UNCHANGED besidesCardManager

\* gsap renders the card's tween for the last time
CardComplete(card) ==
  /\ card \in DOMAIN cardManager.animations
  /\ cardManager.animations[card].started
  /\ cardManager' = cardCompleted(cardManager, card)
  /\ UNCHANGED besidesCardManager

\* a resize of the scene: positionStacks calls updateStackPositions
CardResize ==
  /\ cardManager' = updateStackPositions(cardManager)
  /\ UNCHANGED besidesCardManager

CardInit ==
  /\ EngineInit /\ dialogue = <<>> /\ call = NoCall
  /\ cardManager = NewCardManager
  /\ particleManager = NotBuilt
  /\ magicWords = NotBuilt
  /\ animator = NotBuilt
  /\ smoothing = NotBuilt
  /\ pool = NotBuilt
  /\ animationManager = NotBuilt
  /\ sceneManager = NotBuilt

CardNext ==
  \/ MoveTopCard
  \/ \E card \in Cards : CardStart(card)
  \/ \E card \in Cards : CardComplete(card)
  \/ CardResize

CardSpec == CardInit /\ [][CardNext]_vars

\* C33: when the animation of a card's move completes, the card's zIndex is
\* its position in the destination stack, the value the move's onComplete
\* assigns
C33_CompletedCardHasStackZIndex ==
  [][\A card \in Cards :
       CardComplete(card)
         => cardManager'.zIndex[card] = destinationLength(cardManager, card) - 1]_vars

\* C39: every card is in exactly one of the two stacks, so the stacks hold
\* numCards cards together
C39_EveryCardInOneStack ==
  /\ Len(cardManager.stack1) + Len(cardManager.stack2) = NumCards
  /\ \A card \in Cards :
       Cardinality({ i \in 1..Len(cardManager.stack1) : cardManager.stack1[i] = card })
         + Cardinality({ i \in 1..Len(cardManager.stack2) : cardManager.stack2[i] = card })
         = 1

\* a card is under way to stack 2 while another one has arrived there and the
\* stacks were arranged
C39_Witness ==
  /\ Len(cardManager.stack2) = 2
  /\ cardManager.completed # 0
  /\ DOMAIN cardManager.animations # {}
  /\ cardManager.zIndex[cardManager.stack2[1]] = 0

\* C40: while stack 1 holds cards no moveTopCard() that moves a card takes it
\* from stack 2, whatever the order of timer ticks and animation completions
C40_OneWayUntilExhausted ==
  cardManager.moved.returned /\ cardManager.moved.stack1Held > 0
    => cardManager.moved.fromStack1

-----------------------------------------------------------------------------
(* ObjectPool: the stored objects are distinct *)

\* C37: the pool never stores the same object twice, so that two calls of
\* get() with no release between them return different objects, whatever
\* the sequence of get, release and releaseMany
C37_NoObjectStoredTwice ==
  \A i, j \in 1..Len(pool.pool) : pool.pool[i] = pool.pool[j] => i = j

-----------------------------------------------------------------------------
(* ParticleManager *)

\* the default of ObjectPool's maxSize parameter
DefaultMaxSize == 1000
\* config.particleLifetime * 1000
LifetimeMs == 1000
\* config.maxParticles: values that divide LifetimeMs, and one above both
\* LifetimeMs and DefaultMaxSize
MaxParticlesChoices == { 1, 2, 4, 1001 }
ParticleDeltas == { 250, 500 }
\* update() is called at most MaxUpdates times, at most MaxCompletions
\* timelines complete
MaxUpdates == 4
MaxCompletions == 3

\* spawnInterval = Math.max(1, particleLifetime * 1000 / maxParticles); the
\* quotient is exact for the values of MaxParticlesChoices below LifetimeMs
\* and less than 1 for the one above
spawnIntervalOf(maxParticles) == Max(1, LifetimeMs \div maxParticles)

\* new ParticleManager(config): the pool is built with
\* new ObjectPool(factory, reset, config.maxParticles), maxSize defaulted;
\* made counts the sprites the factory made, updates and completions are
\* history
NewParticleManager(maxParticles) ==
  [ built |-> TRUE,
    maxParticles |-> maxParticles,
    spawnInterval |-> spawnIntervalOf(maxParticles),
    timeSinceLastSpawn |-> 0,
    activeParticles |-> <<>>,
    particlePool |-> NewObjectPool(maxParticles, DefaultMaxSize, 0).pool,
    maximumSize |-> NewObjectPool(maxParticles, DefaultMaxSize, 0).maximumSize,
    made |-> NewObjectPool(maxParticles, DefaultMaxSize, 0).made,
    madeByConstructor |-> NewObjectPool(maxParticles, DefaultMaxSize, 0).made,
    updates |-> 0,
    completions |-> 0 ]

\* n calls of spawnParticle(): each particlePool.get() pops the last stored
\* sprite or, the pool being empty, has the factory make one, and the sprite
\* becomes active
spawnParticles(m, n) ==
  LET fromPool == Min(n, Len(m.particlePool))
      stored == Len(m.particlePool)
  IN [ m EXCEPT
         !.particlePool = SubSeq(@, 1, stored - fromPool),
         !.activeParticles =
            @ \o [ i \in 1..fromPool |-> m.particlePool[stored - i + 1] ]
              \o [ i \in 1..(n - fromPool) |-> m.made + i ],
         !.made = @ + (n - fromPool) ]

\* the number of rounds of the while loop of update(): one spawn per
\* spawnInterval accumulated, while the system is not full
spawnsDue(m) ==
  Min(m.timeSinceLastSpawn \div m.spawnInterval,
      Max(0, m.maxParticles - Len(m.activeParticles)))

\* the while loop of update()
spawnWhileDue(m) ==
  [ spawnParticles(m, spawnsDue(m)) EXCEPT
      !.timeSinceLastSpawn = @ - spawnsDue(m) * m.spawnInterval ]

\* the accumulator is dropped when the system is full
accumulatorCapped(m) ==
  IF Len(m.activeParticles) >= m.maxParticles
  THEN [ m EXCEPT !.timeSinceLastSpawn = 0 ]
  ELSE m

particleUpdate(m, deltaMS) ==
  accumulatorCapped(spawnWhileDue([ m EXCEPT !.timeSinceLastSpawn = @ + deltaMS,
                                             !.updates = @ + 1 ]))

\* a timeline's onComplete: the sprite leaves activeParticles and is released
\* to the pool (reset does not throw)
particleCompleted(m, particle) ==
  [ m EXCEPT
      !.activeParticles = SelectSeq(@, LAMBDA p : p # particle),
      !.particlePool = release(@, m.maximumSize, particle, FALSE),
      !.completions = @ + 1 ]

besidesParticleManager ==
  << engineVars, pureVars, animator, smoothing, pool, animationManager,
     sceneManager, cardManager, magicWords >>

ParticleUpdate(deltaMS) ==
  /\ particleManager.updates < MaxUpdates
  /\ particleManager' = particleUpdate(particleManager, deltaMS)
  /\ UNCHANGED besidesParticleManager

\* every timeline lasts particleLifetime, so the sprite spawned first completes
\* first
ParticleComplete ==
  /\ particleManager.completions < MaxCompletions
  /\ Len(particleManager.activeParticles) > 0
  /\ particleManager' = particleCompleted(particleManager,
                                          Head(particleManager.activeParticles))
  /\ UNCHANGED besidesParticleManager

ParticleInit ==
  /\ EngineInit /\ dialogue = <<>> /\ call = NoCall
  /\ particleManager \in { NewParticleManager(n) : n \in MaxParticlesChoices }
  /\ cardManager = NotBuilt
  /\ magicWords = NotBuilt
  /\ animator = NotBuilt
  /\ smoothing = NotBuilt
  /\ pool = NotBuilt
  /\ animationManager = NotBuilt
  /\ sceneManager = NotBuilt

ParticleNext ==
  \/ \E deltaMS \in ParticleDeltas : ParticleUpdate(deltaMS)
  \/ ParticleComplete

ParticleSpec == ParticleInit /\ [][ParticleNext]_vars

\* C38: between construction and destroy the active and the pooled particles
\* are maxParticles together, for every maxParticles: the factory makes no
\* particle after construction and no completed particle is lost
C38_ActivePlusPooledIsMax ==
  /\ Len(particleManager.activeParticles) + Len(particleManager.particlePool)
       = particleManager.maxParticles
  /\ particleManager.made = particleManager.madeByConstructor

-----------------------------------------------------------------------------
(* DialogueManager: the cursor and its segment *)

\* C35: while typing is not complete and a line exists, currentPartIndex is
\* an index of a segment of the current line, and on a text segment
\* currentCharacterIndex is at most the length of its content, after every
\* update, resize and appendMessage
C35_CursorOnASegment ==
  (~isTypingComplete /\ Len(linesData) > 0) =>
    /\ currentLineIndex < Len(linesData)
    /\ currentPartIndex \in 0..(Len(linesData[currentLineIndex + 1].parts) - 1)
    /\ linesData[currentLineIndex + 1].parts[currentPartIndex + 1].type = "text"
         => currentCharacterIndex
              <= Len(linesData[currentLineIndex + 1].parts[currentPartIndex + 1].content)

\* the cursor stands at the end of the text segment that follows the emoji of
\* the first line, after a resize, with a second line waiting
C35_Witness ==
  /\ ~isTypingComplete
  /\ dialogue = << LineEmo, LineHi >>
  /\ screenWidth # InitScreen.width
  /\ currentLineIndex = 0
  /\ currentPartIndex = 2
  /\ currentCharacterIndex = 1

-----------------------------------------------------------------------------
(* DialogueManager: the lines and the payload *)

\* C36: after construction and any appendMessage and resize the laid-out
\* lines are as many as the payload's entries, and the i-th line shows the
\* speaker and the segments of the i-th entry
C36_LinesRenderThePayload ==
  /\ Len(linesData) = Len(dialogue)
  /\ \A i \in 1..Len(linesData) :
       /\ i <= Len(dialogue)
       /\ linesData[i].speakerName = dialogue[i].name
       /\ linesData[i].parts = parseLine(dialogue[i].text)

\* a line was appended to the line of the constructor's payload and the two
\* were rebuilt by a resize
C36_Witness ==
  /\ dialogue = << LineHi, LineHi >>
  /\ screenWidth # InitScreen.width
  /\ lastOperation = "other"

-----------------------------------------------------------------------------
(* MagicWordsScene *)

\* the payloads of AssetCache.magicWordsData
MagicPayloads ==
  { <<>>, << LineHi >>, << LineEmo, LineHi >>, << LineHi, LineEmo, LineHi >> }

\* init(): the DialogueManager is given the first line of the payload only
initialDialogue(payload) == IF Len(payload) > 0 THEN << payload[1] >> ELSE <<>>

\* init(): the scene's fields once the DialogueManager is constructed
NewMagicWordsScene(payload) ==
  [ built |-> TRUE, dialogueData |-> payload, currentMessageIndex |-> 0 ]

\* dialogueManager.update(deltaMS): the typing state, the accumulator and
\* the scroll target it leaves
managerUpdated(deltaMS) ==
  IF isTypingComplete
  THEN [ typing |-> TypingState, lineRevealAccumulator |-> lineRevealAccumulator,
         targetScrollY |-> targetScrollY ]
  ELSE LET t == advanceTimes(TypingState,
                             (lineRevealAccumulator + deltaMS) \div charRevealTime)
       IN [ typing |-> t,
            lineRevealAccumulator |-> (lineRevealAccumulator + deltaMS) % charRevealTime,
            targetScrollY |-> IF t.isTypingComplete THEN targetScrollY
                              ELSE scrollToBottom(targetScrollY, isScrollingPaused,
                                                  dialogueContentHeight, maskHeight) ]

\* update(): the test that lets the next message through (the mutant does not
\* wait for the typing to be complete)
handsOverEarly(typingComplete, messageIndex, length) == messageIndex < length - 1
handsOver(typingComplete, messageIndex, length) ==
  typingComplete /\ messageIndex < length - 1

\* where appendMessage puts a line after the lines laid out
appendedTop(lines) ==
  IF Len(lines) > 0
  THEN lines[Len(lines)].y + lines[Len(lines)].height + LINE_SPACING
  ELSE 0

\* the line appendMessage lays out
appendedLine(lines, line) ==
  updateLineVisibility(
    [ createDialogueLine(line, screenWidth - DIALOGUE_PADDING * 2)
        EXCEPT !.y = appendedTop(lines) ],
    0, 0)

besidesMagicWords ==
  << pureVars, animator, smoothing, pool, animationManager, sceneManager,
     cardManager, particleManager >>

\* MagicWordsScene.update(deltaMS): dialogueManager.update(deltaMS), then,
\* typing being complete and a message being left, appendMessage of the
\* next message
MagicUpdate(deltaMS) ==
  \E u \in { managerUpdated(deltaMS) } :
     /\ ~destroyed
     /\ IF handsOver(u.typing.isTypingComplete, magicWords.currentMessageIndex,
                     Len(magicWords.dialogueData))
        THEN \E nextMessage \in
                  { magicWords.dialogueData[magicWords.currentMessageIndex + 2] } :
             \E newLineData \in { appendedLine(u.typing.linesData, nextMessage) } :
             \E totalHeight \in
                  { appendedTop(u.typing.linesData) + newLineData.height } :
             /\ magicWords' = [ magicWords EXCEPT !.currentMessageIndex = @ + 1 ]
             /\ linesData' = Append(u.typing.linesData, newLineData)
             /\ dialogue' = payloadWith(dialogue, nextMessage)
             /\ dialogueContentHeight' = totalHeight
             /\ isTypingComplete' = FALSE
             /\ lineRevealAccumulator' =
                  IF u.typing.isTypingComplete THEN 0 ELSE u.lineRevealAccumulator
             /\ currentLineIndex' = Len(u.typing.linesData)
             /\ currentPartIndex' = 0
             /\ currentCharacterIndex' = 0
             /\ targetScrollY' =
                  forceScrollToBottom(
                    updateContentHeight(u.targetScrollY, isScrollingPaused,
                                        totalHeight, maskHeight),
                    isScrollingPaused, totalHeight, maskHeight)
             /\ lastOperation' = "appendMessage"
             /\ totalMs' = MaxTrackedMs
             /\ quietSinceRelease' = FALSE
        ELSE /\ UNCHANGED << magicWords, dialogue, dialogueContentHeight,
                             quietSinceRelease >>
             /\ linesData' = u.typing.linesData
             /\ isTypingComplete' = u.typing.isTypingComplete
             /\ lineRevealAccumulator' = u.lineRevealAccumulator
             /\ currentLineIndex' = u.typing.currentLineIndex
             /\ currentPartIndex' = u.typing.currentPartIndex
             /\ currentCharacterIndex' = u.typing.currentCharacterIndex
             /\ targetScrollY' = u.targetScrollY
             /\ lastOperation' = "other"
             /\ totalMs' = Min(totalMs + deltaMS, MaxTrackedMs)
     /\ isScrollingPaused' = pausedRestored(isScrollingPaused)
     /\ UNCHANGED << screenWidth, maskHeight, pointerVars, timerVars, lifeVars >>
     /\ UNCHANGED besidesMagicWords

\* the ticker calls update() on every frame
MagicTick == \E deltaMS \in Deltas : MagicUpdate(deltaMS)

\* MagicWordsScene.resize: dialogueManager.resize(screenWidth, screenHeight)
MagicResize == \E screen \in Screens : Resize(screen.width, screen.height)

MagicWordsInit ==
  /\ \E payload \in MagicPayloads :
       /\ EngineBuiltFrom(initialDialogue(payload))
       /\ magicWords = NewMagicWordsScene(payload)
  /\ call = NoCall
  /\ cardManager = NotBuilt
  /\ particleManager = NotBuilt
  /\ animator = NotBuilt
  /\ smoothing = NotBuilt
  /\ pool = NotBuilt
  /\ animationManager = NotBuilt
  /\ sceneManager = NotBuilt

MagicWordsNext ==
  \/ MagicTick
  \/ MagicResize

MagicWordsSpec == MagicWordsInit /\ [][MagicWordsNext]_vars

\* the ticker keeps running while the scene is shown
MagicWordsLiveSpec == MagicWordsSpec /\ WF_vars(MagicTick)

\* the DialogueManager holds the messages up to currentMessageIndex, in the
\* order of the payload, each once
HandedInOrder ==
  dialogue = SubSeq(magicWords.dialogueData, 1,
                    Min(Len(magicWords.dialogueData), magicWords.currentMessageIndex + 1))

\* a step that appends a line finds every line before it typed in full
AppendsAfterTyping ==
  Len(dialogue') > Len(dialogue) =>
    /\ Len(dialogue') = Len(dialogue) + 1
    /\ \A k \in 1..Len(dialogue) : LineFullyVisible(linesData'[k])

\* every message is handed over and typed in full
AllHandedAndTyped ==
  /\ dialogue = magicWords.dialogueData
  /\ isTypingComplete
  /\ AllFullyVisible

\* C34: the scene hands the messages of the payload to the DialogueManager
\* one at a time, in order, each once, and only when every earlier line is
\* typed in full; while update() keeps being called every message is
\* eventually handed over and typed in full
C34_MessagesOneByOneToTheEnd ==
  /\ []HandedInOrder
  /\ [][AppendsAfterTyping]_vars
  /\ <>AllHandedAndTyped

\* the three messages of a payload were handed over and typed
C34_Witness ==
  /\ Len(magicWords.dialogueData) = 3
  /\ magicWords.currentMessageIndex = 2
  /\ AllHandedAndTyped

====
